---- MODULE Spec2Model ----
(***************************************************************************)
(* Model of the session manager of redis-tics: the useRedis hook           *)
(* (src/src/hooks/useRedis.ts) as driven by App.tsx and Sidebar.tsx.       *)
(*                                                                         *)
(* Every awaited invoke() of the hook is a point where the call is         *)
(* suspended; a suspended call is an element of the bag `tasks`, and the   *)
(* arrival of the backend's answer is an action of its own.  React state   *)
(* is modelled by one variable per useState cell.                          *)
(***************************************************************************)
EXTENDS Bags, FiniteSets, Integers, Sequences, TLC

VARIABLES
    servers,          \* useState<RedisServer[]>              useRedis.ts:7
    activeServerId,   \* useState<string | null>              useRedis.ts:8
    connectionStates, \* useState<Record<string, ConnectionState>>  :9
    monitorEvents,    \* useState<MonitorEvent[]> (the replay buffer) :12
    ipStats,          \* useState<Record<string, IpStats>>    useRedis.ts:13
    selectedIp,       \* useState<string | null>              useRedis.ts:14
    tasks,            \* bag of suspended async calls of the hook
    saved,            \* the list last handed to save_servers
    stream,           \* backend monitor stream of each profile (spec 4.5)
    pending,          \* React's queue of state updates not yet rendered
    fed,              \* history: events applied to ipStats since the last clear
    prevRun,          \* history: fed and ipStats as the last clear found them
    clock,            \* number of events the backend has emitted so far
    last,             \* history: the step taken last
    cli,              \* RedisCLI's state cells
    browser,          \* KeyBrowser's state cells
    analytics,        \* DatabaseAnalytics' state cells
    calls,            \* bag of the panels' invoke calls not yet answered
    store,            \* backend: the keys of the active profile's keyspace
    advanced,         \* AnalyticsPanel's state cells
    mounted,          \* the component that calls useRedis is mounted
    unlistenRef,      \* useRef<UnlistenFn | null>            useRedis.ts:15
    listeners,        \* backend: the listeners registered for "redis-monitor"
    intended          \* history: the password the user gave each profile

vars == <<servers, activeServerId, connectionStates, monitorEvents, ipStats,
          selectedIp, tasks, saved, stream, pending, fed, prevRun, clock, last,
          cli, browser, analytics, calls, store, advanced, mounted, unlistenRef,
          listeners, intended>>

panelVars == <<cli, browser, analytics, calls, store>>

effectVars == <<mounted, unlistenRef, listeners>>

restVars == <<advanced, effectVars, intended>>

sessionVars == <<servers, activeServerId, connectionStates, tasks, saved, stream>>

monitorVars == <<monitorEvents, ipStats, pending, fed, prevRun, clock>>

(***************************************************************************)
(* Bounds and input sets                                                   *)
(***************************************************************************)
MaxTasks == 2      \* suspended calls of the hook at any one time
MaxPending == 2    \* state updates React may hold back before it renders
MaxEvents == 3     \* events emitted in the small aggregation specification
MaxOverflow == 2   \* events emitted beyond the replay cap in SpecCap
MaxNesting == 2    \* times a password is encrypted over
ReplayCap == 1000  \* .slice(0, 1000)

Ids == {"s1"}
Ips == {"10.0.0.1", "10.0.0.2"}
Commands == {"GET", "HSET"}
Timestamps == {1, 2}

NULL == "null"

Min(a, b) == IF a < b THEN a ELSE b

(***************************************************************************)
(* MonitorEvent (types/index.ts:63-71).  clientPort, db and args are never *)
(* read by the hook and are left out; raw is the line as a sequence of     *)
(* characters, so that raw.length is Len(raw).                             *)
(***************************************************************************)
MonitorEvent(t, ip, cmd, raw) ==
    [timestamp |-> t, clientIp |-> ip, command |-> cmd, raw |-> raw]

NoEvent == MonitorEvent(0, "", "", <<>>)

(***************************************************************************)
(* updateIpStats (useRedis.ts:33-51): the updater handed to setIpStats.    *)
(***************************************************************************)
ZeroStat(ip) ==
    [ip |-> ip, commandCount |-> 0, lastSeen |-> 0, commands |-> << >>,
     bytesProcessed |-> 0]

\* Mutant: the entry is rebuilt from zero for every event.
ExistingFresh(prev, ip) == ZeroStat(ip)

\* prev[ip] || { ip, commandCount: 0, ... }
Existing(prev, ip) == IF ip \in DOMAIN prev THEN prev[ip] ELSE ZeroStat(ip)

\* Mutant: the per-command counter restarts with every event.
CommandCountOfFresh(commands, cmd) == 0

\* existing.commands[event.command] || 0
CommandCountOf(commands, cmd) ==
    IF cmd \in DOMAIN commands THEN commands[cmd] ELSE 0

\* { ...obj, [key]: value }
Spread(obj, key, value) ==
    [k \in DOMAIN obj \cup {key} |-> IF k = key THEN value ELSE obj[k]]

updateIpStats(prev, event) ==
    LET ip == event.clientIp
        existing == Existing(prev, ip)
    IN  Spread(prev, ip,
               [ip |-> existing.ip,
                commandCount |-> existing.commandCount + 1,
                lastSeen |-> event.timestamp,
                commands |-> Spread(existing.commands, event.command,
                                CommandCountOf(existing.commands, event.command) + 1),
                bytesProcessed |-> existing.bytesProcessed + Len(event.raw)])

(***************************************************************************)
(* The updater handed to setMonitorEvents (useRedis.ts:28).                *)
(***************************************************************************)
\* Mutant: .slice(1, 1000), which loses the newest element.
SliceFromOne(s, n) == SubSeq(s, 2, Min(n, Len(s)))

Slice(s, n) == SubSeq(s, 1, Min(n, Len(s)))

\* Mutant: [...prev, data] instead of [data, ...prev]
pushMonitorEventAtEnd(prev, data) == Slice(Append(prev, data), ReplayCap)

pushMonitorEvent(prev, data) == Slice(<<data>> \o prev, ReplayCap)

(***************************************************************************)
(* React applies queued updates in the order they were queued, at the next *)
(* render.  An item of `pending` is what one call of the listener          *)
(* (useRedis.ts:26-30) or of clearMonitorEvents (useRedis.ts:178-181)      *)
(* queued: the two setState calls of either always come together.          *)
(***************************************************************************)
EventUpdate(ev) == [kind |-> "event", ev |-> ev]
ClearUpdate == [kind |-> "clear", ev |-> NoEvent]

\* The listener's two updates (useRedis.ts:28-29), applied to the rendered state.
Delivered(st, ev) ==
    [st EXCEPT !.events = pushMonitorEvent(@, ev),
               !.stats = updateIpStats(@, ev),
               !.fed = Append(@, ev)]

\* Mutant: setIpStats({}) is forgotten.
ClearedEventsOnly(st) ==
    [events |-> << >>, stats |-> st.stats, fed |-> << >>,
     prev |-> [fed |-> st.fed, stats |-> st.stats]]

\* setMonitorEvents([]) and setIpStats({}) (useRedis.ts:179-180)
Cleared(st) ==
    [events |-> << >>, stats |-> << >>, fed |-> << >>,
     prev |-> [fed |-> st.fed, stats |-> st.stats]]

ApplyUpdate(st, u) ==
    IF u.kind = "event" THEN Delivered(st, u.ev) ELSE Cleared(st)

RECURSIVE ApplyAll(_, _)
ApplyAll(st, us) ==
    IF us = << >> THEN st ELSE ApplyAll(ApplyUpdate(st, Head(us)), Tail(us))

Rendered ==
    ApplyAll([events |-> monitorEvents, stats |-> ipStats, fed |-> fed,
              prev |-> prevRun], pending)

\* The listener of "redis-monitor" runs for an event the backend emits.
OnMonitorEvent(ev) ==
    /\ Len(pending) < MaxPending
    /\ pending' = Append(pending, EventUpdate(ev))
    /\ clock' = clock + 1
    /\ last' = [op |-> "event", id |-> ev.clientIp, ok |-> TRUE]
    /\ UNCHANGED <<monitorEvents, ipStats, fed, prevRun, selectedIp>>
    /\ UNCHANGED <<sessionVars, panelVars, restVars>>

\* React renders: every queued update is applied, oldest first.
Render ==
    /\ pending # << >>
    /\ monitorEvents' = Rendered.events
    /\ ipStats' = Rendered.stats
    /\ fed' = Rendered.fed
    /\ prevRun' = Rendered.prev
    /\ pending' = << >>
    /\ last' = [op |-> "render", id |-> NULL, ok |-> TRUE]
    /\ UNCHANGED <<clock, selectedIp>>
    /\ UNCHANGED <<sessionVars, panelVars, restVars>>

\* clearMonitorEvents (useRedis.ts:178-181)
clearMonitorEvents ==
    /\ Len(pending) < MaxPending
    /\ pending' = Append(pending, ClearUpdate)
    /\ last' = [op |-> "clear", id |-> NULL, ok |-> TRUE]
    /\ UNCHANGED <<monitorEvents, ipStats, fed, prevRun, clock, selectedIp>>
    /\ UNCHANGED <<sessionVars, panelVars, restVars>>

\* Mutant: selecting an address throws the other addresses' statistics away.
setSelectedIpDestructive(ip) ==
    /\ selectedIp # ip
    /\ selectedIp' = ip
    /\ ipStats' = [a \in DOMAIN ipStats \cap {ip} |-> ipStats[a]]
    /\ last' = [op |-> "selectIp", id |-> ip, ok |-> TRUE]
    /\ UNCHANGED <<monitorEvents, pending, fed, prevRun, clock>>
    /\ UNCHANGED <<sessionVars, panelVars, restVars>>

\* setSelectedIp (useRedis.ts:14), from MonitorPanel and ClientsPanel
setSelectedIp(ip) ==
    /\ selectedIp # ip
    /\ selectedIp' = ip
    /\ last' = [op |-> "selectIp", id |-> ip, ok |-> TRUE]
    /\ UNCHANGED monitorVars
    /\ UNCHANGED <<sessionVars, panelVars, restVars>>

\* filteredEvents (useRedis.ts:183-185): what the hook returns as monitorEvents
filteredEvents ==
    IF selectedIp # NULL
    THEN SelectSeq(monitorEvents, LAMBDA e : e.clientIp = selectedIp)
    ELSE monitorEvents

(***************************************************************************)
(* Profiles and sessions.  A RedisServer (types/index.ts:1-9) is reduced   *)
(* to its id and its stored password; "" is the absent password.  A        *)
(* ConnectionState is a JavaScript object: a function whose domain is the  *)
(* set of keys it has.                                                      *)
(***************************************************************************)
RedisServer(id, password) == [id |-> id, password |-> password]

NoServer == RedisServer(NULL, "")

\* servers.find((s) => s.id === serverId)
Find(list, id) ==
    IF \E i \in 1..Len(list) : list[i].id = id
    THEN list[CHOOSE i \in 1..Len(list) :
                 /\ list[i].id = id
                 /\ \A j \in 1..(i - 1) : list[j].id # id]
    ELSE NoServer

\* servers.filter((s) => s.id !== id)
Without(list, id) == SelectSeq(list, LAMBDA s : s.id # id)

HasProfile(list, id) == \E i \in 1..Len(list) : list[i].id = id

\* obj?.[field], read as a condition
Truthy(obj, field) == field \in DOMAIN obj /\ obj[field] = TRUE

\* connectionStates[id]?.connected and ...?.monitoring, read as conditions
Connected(id) ==
    id \in DOMAIN connectionStates /\ Truthy(connectionStates[id], "connected")

Monitoring(id) ==
    id \in DOMAIN connectionStates /\ Truthy(connectionStates[id], "monitoring")

\* { serverId, connected: false, monitoring: false }   (useRedis.ts:91, 121)
Disconnected(id) == [serverId |-> id, connected |-> FALSE, monitoring |-> FALSE]

\* { serverId, connected: true, monitoring: false }    (useRedis.ts:104)
ConnectedState(id) == [serverId |-> id, connected |-> TRUE, monitoring |-> FALSE]

\* { serverId, connected: false, monitoring: false, error: String(error) }
FailedState(id) ==
    [serverId |-> id, connected |-> FALSE, monitoring |-> FALSE,
     error |-> "connection failed"]

\* { ...prev[serverId], monitoring: value }            (useRedis.ts:163, 173)
WithMonitoring(prev, id, value) ==
    Spread(prev, id,
           Spread(IF id \in DOMAIN prev THEN prev[id] ELSE << >>, "monitoring", value))

(***************************************************************************)
(* Suspended calls.  A task holds what the call's closure captured: the    *)
(* profile found by connect, the servers and activeServerId that           *)
(* removeServer was created with, the servers and connectionStates that    *)
(* updateServer was created with.                                          *)
(***************************************************************************)
Task(op, id, pc, server, list, active) ==
    [op |-> op, id |-> id, pc |-> pc, server |-> server, servers |-> list,
     active |-> active, states |-> << >>]

Plain(op, id, pc) == Task(op, id, pc, NoServer, << >>, NULL)

Suspend(t) == tasks (+) SetToBag({t})

Resume(t) == tasks (-) SetToBag({t})

Step(t, u) == (tasks (-) SetToBag({t})) (+) SetToBag({u})

Waiting(op, pc) == {t \in BagToSet(tasks) : t.op = op /\ t.pc = pc}

CanSuspend == BagCardinality(tasks) < MaxTasks

InFlight(op, id, pc) ==
    LET t == {u \in BagToSet(tasks) : u.op = op /\ u.id = id /\ u.pc = pc}
    IN  IF t = {} THEN 0
        ELSE LET RECURSIVE Sum(_)
                 Sum(S) == IF S = {} THEN 0
                           ELSE LET x == CHOOSE y \in S : TRUE
                                IN  CopiesIn(x, tasks) + Sum(S \ {x})
             IN  Sum(t)

(***************************************************************************)
(* Credential vault (spec 4.1): the backend commands                       *)
(* encrypt_server_password and decrypt_server_password.                    *)
(***************************************************************************)
Plaintexts == {"pw"}

encrypt(plaintext) == "enc(" \o plaintext \o ")"

\* What may be handed to encrypt: a password, or a blob that encrypt gave
\* out, encrypted at most MaxNesting times over.
RECURSIVE Nested(_)
Nested(n) ==
    IF n = 0 THEN Plaintexts
    ELSE Nested(n - 1) \cup {encrypt(p) : p \in Nested(n - 1)}

\* decrypt succeeds on what this installation's encrypt produced
CanDecrypt(blob) == \E p \in Nested(MaxNesting) : encrypt(p) = blob

decrypt(blob) ==
    IF CanDecrypt(blob) THEN CHOOSE p \in Nested(MaxNesting) : encrypt(p) = blob ELSE "?"

\* The profile lists that may be on disk when the application starts: one
\* profile, stored without a password or with an encrypted one.
StoredLists == {<<RedisServer("s1", "")>>, <<RedisServer("s1", encrypt("pw"))>>}

\* The passwords the profiles of a stored list were given by the user.
IntendedOf(list) ==
    [id \in {list[i].id : i \in DOMAIN list} |->
        IF Find(list, id).password = "" THEN "" ELSE decrypt(Find(list, id).password)]

(***************************************************************************)
(* loadServers (useRedis.ts:53-61), started by the mount effect (:17-23).  *)
(***************************************************************************)
LoadServersDone(ok) ==
    \E t \in Waiting("loadServers", "get_servers") :
        /\ servers' = IF ok THEN saved ELSE << >>
        /\ tasks' = Resume(t)
        /\ last' = [op |-> "loadServers.done", id |-> NULL, ok |-> ok]
        /\ UNCHANGED <<activeServerId, connectionStates, saved, stream>>
        /\ UNCHANGED <<monitorVars, selectedIp, panelVars, restVars>>

(***************************************************************************)
(* connect (useRedis.ts:87-115)                                            *)
(***************************************************************************)
\* The synchronous head of connect: lines 88-97 or 88-103.
ConnectHead(serverId) ==
    LET server == Find(servers, serverId)
    IN  IF server = NoServer
        THEN UNCHANGED <<connectionStates, tasks>>
        ELSE /\ connectionStates' = Spread(connectionStates, serverId, Disconnected(serverId))
             /\ tasks' = Suspend(Task("connect", serverId,
                                      IF server.password # ""
                                      THEN "decrypt_server_password"
                                      ELSE "connect_redis",
                                      server, << >>, NULL))

\* Sidebar's connect button (Sidebar.tsx:90-99) and App's (App.tsx:92)
Connect(serverId) ==
    /\ CanSuspend
    /\ ~Connected(serverId)
    /\ HasProfile(servers, serverId) \/ activeServerId = serverId
    /\ ConnectHead(serverId)
    /\ last' = [op |-> "connect", id |-> serverId, ok |-> HasProfile(servers, serverId)]
    /\ UNCHANGED <<servers, activeServerId, saved, stream>>
    /\ UNCHANGED <<monitorVars, selectedIp, panelVars, restVars>>

\* handleSelectServer (App.tsx:49-55)
handleSelectServer(id) ==
    /\ Connected(id) \/ CanSuspend
    /\ HasProfile(servers, id)
    /\ activeServerId' = id
    /\ IF ~Connected(id)
       THEN ConnectHead(id)
       ELSE UNCHANGED <<connectionStates, tasks>>
    /\ last' = [op |-> "select", id |-> id, ok |-> ~Connected(id)]
    /\ UNCHANGED <<servers, saved, stream>>
    /\ UNCHANGED <<monitorVars, selectedIp, panelVars, restVars>>

\* decryptedPassword once the try/catch around decrypt_server_password is
\* over (useRedis.ts:94-101): the decrypted value, or the stored one as it is.
AfterDecryptBlank(stored, ok) == IF ok THEN decrypt(stored) ELSE ""

AfterDecrypt(stored, ok) == IF ok THEN decrypt(stored) ELSE stored

\* decrypt_server_password answers the call t, or throws (useRedis.ts:97-103)
ConnectDecryptedOf(t, ok) ==
    /\ ok => CanDecrypt(t.server.password)
    /\ tasks' = Step(t, [t EXCEPT !.pc = "connect_redis",
                                  !.server.password = AfterDecrypt(@, ok)])
    /\ last' = [op |-> "connect.decrypted", id |-> t.id, ok |-> ok]
    /\ UNCHANGED <<servers, activeServerId, connectionStates, saved, stream>>
    /\ UNCHANGED <<monitorVars, selectedIp, panelVars, restVars>>

\* The stored blob may come from another installation: decrypt may fail on it.
ConnectDecrypted(ok) ==
    \E t \in Waiting("connect", "decrypt_server_password") : ConnectDecryptedOf(t, ok)

\* The blob was stored by this installation, or is no blob at all: decrypt
\* succeeds on what encrypt produced and fails on the rest (spec 4.1).
ConnectDecryptedOwn ==
    \E t \in Waiting("connect", "decrypt_server_password") :
        ConnectDecryptedOf(t, CanDecrypt(t.server.password))

\* The call of connect after its catch block (useRedis.ts:108-114): the
\* failure is written to the session and the call returns.
AfterConnectFailureRetry(t) == Step(t, [t EXCEPT !.pc = "connect_redis"])

AfterConnectFailure(t) == Resume(t)

\* connect_redis answers (useRedis.ts:103-106, 108-114)
ConnectDone(ok) ==
    \E t \in Waiting("connect", "connect_redis") :
        /\ IF ok
           THEN /\ connectionStates' = Spread(connectionStates, t.id, ConnectedState(t.id))
                /\ activeServerId' = t.id
                /\ tasks' = Step(t, [t EXCEPT !.pc = "get_redis_info"])
           ELSE /\ connectionStates' = Spread(connectionStates, t.id, FailedState(t.id))
                /\ tasks' = AfterConnectFailure(t)
                /\ UNCHANGED activeServerId
        /\ last' = [op |-> "connect.done", id |-> t.id, ok |-> ok]
        /\ UNCHANGED <<servers, saved, stream>>
        /\ UNCHANGED <<monitorVars, selectedIp, panelVars, restVars>>

\* get_redis_info answers inside connect (useRedis.ts:106, 144-149);
\* serverInfo is not modelled, and a failure is swallowed.
ConnectInfoDone ==
    \E t \in Waiting("connect", "get_redis_info") :
        /\ tasks' = Step(t, [t EXCEPT !.pc = "get_client_list"])
        /\ last' = [op |-> "connect.info", id |-> t.id, ok |-> TRUE]
        /\ UNCHANGED <<servers, activeServerId, connectionStates, saved, stream>>
        /\ UNCHANGED <<monitorVars, selectedIp, panelVars, restVars>>

\* get_client_list answers inside connect (useRedis.ts:107, 151-156)
ConnectClientsDone ==
    \E t \in Waiting("connect", "get_client_list") :
        /\ tasks' = Resume(t)
        /\ last' = [op |-> "connect.clients", id |-> t.id, ok |-> TRUE]
        /\ UNCHANGED <<servers, activeServerId, connectionStates, saved, stream>>
        /\ UNCHANGED <<monitorVars, selectedIp, panelVars, restVars>>

(***************************************************************************)
(* disconnect (useRedis.ts:117-122)                                        *)
(***************************************************************************)
\* Mutant: the session is reset inside the try, so only when the close succeeded.
AfterDisconnectInsideTry(prev, serverId, ok) ==
    IF ok THEN Spread(prev, serverId, Disconnected(serverId)) ELSE prev

\* line 121, after the try/catch
AfterDisconnect(prev, serverId, ok) == Spread(prev, serverId, Disconnected(serverId))

\* Sidebar's disconnect button (Sidebar.tsx:78-88)
Disconnect(serverId) ==
    /\ CanSuspend
    /\ HasProfile(servers, serverId)
    /\ Connected(serverId)
    /\ tasks' = Suspend(Plain("disconnect", serverId, "disconnect_redis"))
    /\ last' = [op |-> "disconnect", id |-> serverId, ok |-> TRUE]
    /\ UNCHANGED <<servers, activeServerId, connectionStates, saved, stream>>
    /\ UNCHANGED <<monitorVars, selectedIp, panelVars, restVars>>

\* The backend closes the monitor stream with the connection (spec 4.2).
StreamAfterClose(id, ok) == IF ok THEN [stream EXCEPT ![id] = "idle"] ELSE stream

\* disconnect_redis answers, or throws
DisconnectDone(ok) ==
    \E t \in Waiting("disconnect", "disconnect_redis") :
        /\ connectionStates' = AfterDisconnect(connectionStates, t.id, ok)
        /\ stream' = StreamAfterClose(t.id, ok)
        /\ tasks' = Resume(t)
        /\ last' = [op |-> "disconnect.done", id |-> t.id, ok |-> ok]
        /\ UNCHANGED <<servers, activeServerId, saved>>
        /\ UNCHANGED <<monitorVars, selectedIp, panelVars, restVars>>

(***************************************************************************)
(* removeServer (useRedis.ts:79-85)                                        *)
(***************************************************************************)
\* Mutant: the list is filtered and saved before disconnect is awaited.
RemoveHeadFilterFirst(id) ==
    /\ servers' = Without(servers, id)
    /\ saved' = Without(servers, id)
    /\ tasks' = Suspend(Task("removeServer", id, "disconnect_redis", NoServer,
                             servers, activeServerId))
    /\ UNCHANGED connectionStates

\* line 80: the call suspends in disconnect's invoke
RemoveHead(id) ==
    /\ tasks' = Suspend(Task("removeServer", id, "disconnect_redis", NoServer,
                             servers, activeServerId))
    /\ UNCHANGED <<servers, connectionStates, saved>>

\* Sidebar's remove button (Sidebar.tsx:101-111)
removeServer(id) ==
    /\ CanSuspend
    /\ HasProfile(servers, id)
    /\ RemoveHead(id)
    /\ intended' = [k \in DOMAIN intended \ {id} |-> intended[k]]
    /\ last' = [op |-> "removeServer", id |-> id, ok |-> TRUE]
    /\ UNCHANGED <<activeServerId, stream>>
    /\ UNCHANGED <<monitorVars, selectedIp, panelVars, advanced, effectVars>>

\* lines 80-83: disconnect returns, then the list is filtered and saved
RemoveAfterDisconnect(t, ok) ==
    /\ connectionStates' = AfterDisconnect(connectionStates, t.id, ok)
    /\ servers' = Without(t.servers, t.id)
    /\ saved' = Without(t.servers, t.id)
    /\ tasks' = Step(t, [t EXCEPT !.pc = "save_servers"])

RemoveDisconnected(ok) ==
    \E t \in Waiting("removeServer", "disconnect_redis") :
        /\ RemoveAfterDisconnect(t, ok)
        /\ stream' = StreamAfterClose(t.id, ok)
        /\ last' = [op |-> "removeServer.disconnected", id |-> t.id, ok |-> ok]
        /\ UNCHANGED activeServerId
        /\ UNCHANGED <<monitorVars, selectedIp, panelVars, restVars>>

\* line 84: save_servers answers; when it throws, so does removeServer
RemoveSaved(ok) ==
    \E t \in Waiting("removeServer", "save_servers") :
        /\ activeServerId' = IF ok /\ t.active = t.id THEN NULL ELSE activeServerId
        /\ tasks' = Resume(t)
        /\ last' = [op |-> "removeServer.saved", id |-> t.id, ok |-> ok]
        /\ UNCHANGED <<servers, connectionStates, saved, stream>>
        /\ UNCHANGED <<monitorVars, selectedIp, panelVars, restVars>>

(***************************************************************************)
(* addServer (useRedis.ts:63-77) and updateServer (useRedis.ts:124-142).   *)
(* The form hands over the password as typed, "" when the field was left   *)
(* empty (AddServerDialog.tsx:58); crypto.randomUUID() draws an id no      *)
(* profile has.                                                            *)
(***************************************************************************)
NewIds == {"s2"}

\* encryptedPassword once the try/catch around encrypt_server_password is
\* over (:64-71, :125-132): the ciphertext, or the typed value as it is.
AfterEncryptBlank(typed, ok) == IF ok THEN encrypt(typed) ELSE ""

AfterEncrypt(typed, ok) == IF ok THEN encrypt(typed) ELSE typed

\* lines 72-75: the new profile is appended to the list the callback was
\* created with; the result is set and handed to save_servers.
AddStore(t, password) ==
    LET updatedServers == Append(t.servers, RedisServer(t.id, password))
    IN  /\ servers' = updatedServers
        /\ saved' = updatedServers
        /\ tasks' = IF t \in BagToSet(tasks)
                    THEN Step(t, [t EXCEPT !.pc = "save_servers"])
                    ELSE Suspend([t EXCEPT !.pc = "save_servers"])

\* the dialog's submit (AddServerDialog.tsx:51-66, App.tsx:203)
addServer(password) ==
    /\ CanSuspend
    /\ \E id \in NewIds :
          LET t == Task("addServer", id, "encrypt_server_password",
                        RedisServer(id, password), servers, NULL)
          IN  /\ ~HasProfile(servers, id)
              /\ \A u \in BagToSet(tasks) : u.id # id
              /\ IF password # ""
                 THEN /\ tasks' = Suspend(t)
                      /\ UNCHANGED <<servers, saved>>
                 ELSE AddStore(t, password)
              /\ intended' = Spread(intended, id, password)
              /\ last' = [op |-> "addServer", id |-> id, ok |-> password # ""]
    /\ UNCHANGED <<activeServerId, connectionStates, stream>>
    /\ UNCHANGED <<monitorVars, selectedIp, panelVars, advanced, effectVars>>

\* encrypt_server_password answers, or throws (:66-70)
AddEncrypted(ok) ==
    \E t \in Waiting("addServer", "encrypt_server_password") :
        /\ AddStore(t, AfterEncrypt(t.server.password, ok))
        /\ last' = [op |-> "addServer.encrypted", id |-> t.id, ok |-> ok]
        /\ UNCHANGED <<activeServerId, connectionStates, stream>>
        /\ UNCHANGED <<monitorVars, selectedIp, panelVars, restVars>>

\* save_servers answers (:75); when it throws, so does addServer
AddSaved(ok) ==
    \E t \in Waiting("addServer", "save_servers") :
        /\ tasks' = Resume(t)
        /\ last' = [op |-> "addServer.saved", id |-> t.id, ok |-> ok]
        /\ UNCHANGED <<servers, activeServerId, connectionStates, saved, stream>>
        /\ UNCHANGED <<monitorVars, selectedIp, panelVars, restVars>>

\* lines 133-136: the profile is replaced in the list the callback was
\* created with; the result is set and handed to save_servers.
UpdateStore(t, password) ==
    LET serverToSave == RedisServer(t.id, password)
        updatedServers == [i \in 1..Len(t.servers) |->
                              IF t.servers[i].id = t.id THEN serverToSave
                                                        ELSE t.servers[i]]
    IN  /\ servers' = updatedServers
        /\ saved' = updatedServers
        /\ tasks' = IF t \in BagToSet(tasks)
                    THEN Step(t, [t EXCEPT !.pc = "save_servers"])
                    ELSE Suspend([t EXCEPT !.pc = "save_servers"])

\* updateServer up to its first await (lines 125-128, or 125-136)
UpdateHead(id, password) ==
    /\ CanSuspend
    /\ HasProfile(servers, id)
    /\ password = "" \/ encrypt(password) \in Nested(MaxNesting)
    /\ LET t == [Task("updateServer", id, "encrypt_server_password",
                      RedisServer(id, password), servers, NULL)
                 EXCEPT !.states = connectionStates]
       IN  IF password # ""
           THEN /\ tasks' = Suspend(t)
                /\ UNCHANGED <<servers, saved>>
           ELSE UpdateStore(t, password)
    /\ last' = [op |-> "updateServer", id |-> id, ok |-> password # ""]
    /\ UNCHANGED <<activeServerId, connectionStates, stream>>
    /\ UNCHANGED <<monitorVars, selectedIp, panelVars, advanced, effectVars>>

\* updateServer with the password the user typed into the dialog
updateServer(id, password) ==
    /\ UpdateHead(id, password)
    /\ intended' = Spread(intended, id, password)

\* EditServerDialog.handleSubmit (MonitorPanel.tsx:345-362) with the password
\* field as the dialog filled it: setPassword(server.password || "") (:340)
handleSubmit(id) ==
    /\ UpdateHead(id, Find(servers, id).password)
    /\ UNCHANGED intended

\* encrypt_server_password answers, or throws (:127-131)
UpdateEncrypted(ok) ==
    \E t \in Waiting("updateServer", "encrypt_server_password") :
        /\ UpdateStore(t, AfterEncrypt(t.server.password, ok))
        /\ last' = [op |-> "updateServer.encrypted", id |-> t.id, ok |-> ok]
        /\ UNCHANGED <<activeServerId, connectionStates, stream>>
        /\ UNCHANGED <<monitorVars, selectedIp, panelVars, restVars>>

\* save_servers answers (:136-141): the profile is disconnected when the
\* connectionStates the callback was created with say it is connected.
UpdateSaved(ok) ==
    \E t \in Waiting("updateServer", "save_servers") :
        /\ tasks' = IF ok /\ t.id \in DOMAIN t.states /\ Truthy(t.states[t.id], "connected")
                    THEN Step(t, [t EXCEPT !.pc = "disconnect_redis"])
                    ELSE Resume(t)
        /\ last' = [op |-> "updateServer.saved", id |-> t.id, ok |-> ok]
        /\ UNCHANGED <<servers, activeServerId, connectionStates, saved, stream>>
        /\ UNCHANGED <<monitorVars, selectedIp, panelVars, restVars>>

\* disconnect_redis answers inside updateServer (:140, 117-122)
UpdateDisconnected(ok) ==
    \E t \in Waiting("updateServer", "disconnect_redis") :
        /\ connectionStates' = AfterDisconnect(connectionStates, t.id, ok)
        /\ stream' = StreamAfterClose(t.id, ok)
        /\ tasks' = Resume(t)
        /\ last' = [op |-> "updateServer.disconnected", id |-> t.id, ok |-> ok]
        /\ UNCHANGED <<servers, activeServerId, saved>>
        /\ UNCHANGED <<monitorVars, selectedIp, panelVars, restVars>>

(***************************************************************************)
(* startMonitoring and stopMonitoring (useRedis.ts:158-176).  The buttons  *)
(* exist while the active profile is connected (App.tsx:85-94, 179-190);   *)
(* which of the two is shown follows the monitoring flag                   *)
(* (MonitorPanel.tsx:37, 79-87).                                           *)
(***************************************************************************)
MonitorPanelShown(id) == activeServerId = id /\ Connected(id)

startMonitoring(serverId) ==
    /\ CanSuspend
    /\ MonitorPanelShown(serverId)
    /\ ~Monitoring(serverId)
    /\ tasks' = Suspend(Plain("startMonitoring", serverId, "start_monitor"))
    /\ stream' = [stream EXCEPT ![serverId] = IF @ = "idle" THEN "starting" ELSE @]
    /\ last' = [op |-> "startMonitoring", id |-> serverId, ok |-> TRUE]
    /\ UNCHANGED <<servers, activeServerId, connectionStates, saved>>
    /\ UNCHANGED <<monitorVars, selectedIp, panelVars, restVars>>

\* lines 161-164 when start_monitor answered, nothing when it threw
AfterStartMonitor(prev, serverId, ok) ==
    IF ok THEN WithMonitoring(prev, serverId, TRUE) ELSE prev

StartMonitorDone(ok) ==
    \E t \in Waiting("startMonitoring", "start_monitor") :
        /\ ok => stream[t.id] \in {"starting", "streaming"}
        /\ connectionStates' = AfterStartMonitor(connectionStates, t.id, ok)
        /\ stream' = [stream EXCEPT ![t.id] =
                         IF ok THEN "streaming"
                         ELSE IF @ = "starting" THEN "idle" ELSE @]
        /\ tasks' = Resume(t)
        /\ last' = [op |-> "startMonitoring.done", id |-> t.id, ok |-> ok]
        /\ UNCHANGED <<servers, activeServerId, saved>>
        /\ UNCHANGED <<monitorVars, selectedIp, panelVars, restVars>>

stopMonitoring(serverId) ==
    /\ CanSuspend
    /\ MonitorPanelShown(serverId)
    /\ Monitoring(serverId)
    /\ tasks' = Suspend(Plain("stopMonitoring", serverId, "stop_monitor"))
    /\ stream' = [stream EXCEPT ![serverId] = IF @ = "streaming" THEN "stopping" ELSE @]
    /\ last' = [op |-> "stopMonitoring", id |-> serverId, ok |-> TRUE]
    /\ UNCHANGED <<servers, activeServerId, connectionStates, saved>>
    /\ UNCHANGED <<monitorVars, selectedIp, panelVars, restVars>>

\* lines 171-174 when stop_monitor answered, nothing when it threw
AfterStopMonitor(prev, serverId, ok) ==
    IF ok THEN WithMonitoring(prev, serverId, FALSE) ELSE prev

StopMonitorDone(ok) ==
    \E t \in Waiting("stopMonitoring", "stop_monitor") :
        /\ connectionStates' = AfterStopMonitor(connectionStates, t.id, ok)
        /\ stream' = [stream EXCEPT ![t.id] =
                         IF ok THEN "idle"
                         ELSE IF @ = "stopping" THEN "streaming" ELSE @]
        /\ tasks' = Resume(t)
        /\ last' = [op |-> "stopMonitoring.done", id |-> t.id, ok |-> ok]
        /\ UNCHANGED <<servers, activeServerId, saved>>
        /\ UNCHANGED <<monitorVars, selectedIp, panelVars, restVars>>

\* The monitor connection is lost while streaming (spec 4.5).  The hook
\* listens to "redis-monitor" alone (useRedis.ts:26): nothing tells it.
ConnectionLoss(id) ==
    /\ stream[id] = "streaming"
    /\ stream' = [stream EXCEPT ![id] = "idle"]
    /\ last' = [op |-> "connectionLoss", id |-> id, ok |-> FALSE]
    /\ UNCHANGED <<servers, activeServerId, connectionStates, tasks, saved>>
    /\ UNCHANGED <<monitorVars, selectedIp, panelVars, restVars>>

(***************************************************************************)
(* The panels of the active profile (App.tsx:162-168) and the backend      *)
(* commands they invoke.  A call holds what its closure captured in arg;   *)
(* running says that the backend is executing it on the profile's primary  *)
(* connection.                                                             *)
(***************************************************************************)
MaxHistory == 1    \* entries of the CLI's history
MaxCliCalls == 1   \* calls of the CLI awaiting their answer at any one time
MaxKeys == 3       \* keys of the small keyspace
KeyTotal == 250    \* keys of the large keyspace (spec 6, scan scenario)

Call(op, id, pc, arg) == [op |-> op, id |-> id, pc |-> pc, arg |-> arg, running |-> FALSE]

CanCall(max) == BagCardinality(calls) < max

\* the calls whose backend command is being executed and may answer
Answering(op, pc) == {c \in BagToSet(calls) : c.op = op /\ c.pc = pc /\ c.running}

\* Spec 5: the commands of one profile are executed one at a time on its
\* primary connection; commands of different profiles overlap.
ConnectionFreeAlways(id) == TRUE

ConnectionFree(id) == \A c \in BagToSet(calls) : c.id = id => ~c.running

BackendStart ==
    \E c \in BagToSet(calls) :
        /\ ~c.running
        /\ ConnectionFree(c.id)
        /\ calls' = (calls (-) SetToBag({c})) (+) SetToBag({[c EXCEPT !.running = TRUE]})
        /\ last' = [op |-> "backend.start", id |-> c.id, ok |-> TRUE]
        /\ UNCHANGED <<cli, browser, analytics, store>>
        /\ UNCHANGED <<sessionVars, monitorVars, selectedIp, restVars>>

(***************************************************************************)
(* Safety Classifier (spec 4.7): the backend command                       *)
(* check_operation_impact.  A command line or a pattern is the sequence of *)
(* its words, as split(" ") yields them: a leading blank gives a leading   *)
(* empty word, the empty string is <<"">>.  A PerformanceWarning is        *)
(* reduced to its level.                                                   *)
(***************************************************************************)
DANGEROUS_COMMANDS ==
    {<<"FLUSHDB">>, <<"FLUSHALL">>, <<"DEBUG">>, <<"SHUTDOWN">>, <<"CONFIG", "SET">>,
     <<"SLAVEOF">>, <<"REPLICAOF">>}

Threshold == 100

\* the keyspaces the panels are checked against: a large and a small one
Keyspaces == {1..KeyTotal, 1..MaxKeys}

assessScanFirst(operation, pattern, keys) ==
    IF pattern = <<"*">> /\ Cardinality(keys) > Threshold THEN "warning"
    ELSE IF operation \in DANGEROUS_COMMANDS THEN "critical"
    ELSE "ok"

\* rules 1 to 3 of spec 4.7, in their order; the key count is read anew
assess(operation, pattern, keys) ==
    IF operation \in DANGEROUS_COMMANDS THEN "critical"
    ELSE IF pattern = <<"*">> /\ Cardinality(keys) > Threshold THEN "warning"
    ELSE "ok"

\* check_operation_impact answers a request: the verdict joins the request
Classify ==
    \E c \in Answering("assess", "check_operation_impact") :
        /\ calls' = (calls (-) SetToBag({c})) (+)
                      SetToBag({[c EXCEPT !.pc = assess(c.arg.operation, c.arg.pattern, store)]})
        /\ last' = [op |-> "assess", id |-> c.id, ok |-> TRUE]
        /\ UNCHANGED <<cli, browser, analytics, store>>
        /\ UNCHANGED <<sessionVars, monitorVars, selectedIp, restVars>>

(***************************************************************************)
(* RedisCLI (components/RedisCLI.tsx)                                      *)
(***************************************************************************)
CliLines == {<<"">>, <<"GET", "k">>, <<"flushdb">>, <<"", "FLUSHDB">>}

\* String.prototype.toUpperCase, on the words the lines are made of
toUpperCase(line) == [i \in DOMAIN line |-> IF line[i] = "flushdb" THEN "FLUSHDB" ELSE line[i]]

\* String.prototype.trim: the blanks at both ends go
trim(line) ==
    LET full == {i \in DOMAIN line : line[i] # ""}
    IN  IF full = {} THEN <<"">>
        ELSE SubSeq(line, CHOOSE i \in full : \A j \in full : i <= j,
                          CHOOSE i \in full : \A j \in full : i >= j)

\* String.prototype.startsWith, word by word
startsWith(line, prefix) ==
    /\ Len(prefix) <= Len(line)
    /\ \A i \in DOMAIN prefix : line[i] = prefix[i]

\* lines 82-85
checkDangerous(cmd) == \E d \in DANGEROUS_COMMANDS : startsWith(toUpperCase(cmd), d)

\* lines 121-131: the entry the catch block builds from the error thrown
FailedResultKeepsText(err) == [success |-> FALSE, result |-> err, error |-> err]

FailedResult(err) == [success |-> FALSE, result |-> "", error |-> err]

\* execute_command (spec 4.3): a reply, an error reply, or the call throws
\* (the command timed out or could not be sent).
CommandResult(outcome) ==
    CASE outcome = "reply" -> [success |-> TRUE, result |-> "OK", error |-> NULL]
      [] outcome = "error reply" -> [success |-> FALSE, result |-> "", error |-> "ERR"]
      [] outcome = "throws" -> FailedResult("timeout")

Outcomes == {"reply", "error reply", "throws"}

\* the input's onChange (lines 273-280), disabled while loading
setCommand(line) ==
    /\ ~cli.loading
    /\ line # cli.command
    /\ cli' = [cli EXCEPT !.command = line]
    /\ last' = [op |-> "setCommand", id |-> activeServerId, ok |-> TRUE]
    /\ UNCHANGED <<browser, analytics, calls, store>>
    /\ UNCHANGED <<sessionVars, monitorVars, selectedIp, restVars>>

\* lines 104-105 and 165-166, then invoke("execute_command") is awaited
ExecuteHead(op, command) ==
    /\ cli' = [cli EXCEPT !.loading = TRUE, !.warning = NULL]
    /\ calls' = calls (+) SetToBag({Call(op, activeServerId, "execute_command", command)})

\* executeCommand (lines 87-136), by Enter or the Run button
executeCommand ==
    /\ ~cli.loading
    /\ trim(cli.command) # <<"">>
    /\ CanCall(MaxCliCalls)
    /\ Len(cli.history) < MaxHistory
    /\ IF checkDangerous(cli.command)
       THEN /\ calls' = calls (+) SetToBag({Call("executeCommand", activeServerId,
                                                  "check_operation_impact", cli.command)})
            /\ UNCHANGED cli
       ELSE ExecuteHead("executeCommand", cli.command)
    /\ last' = [op |-> "executeCommand", id |-> activeServerId,
                ok |-> ~checkDangerous(cli.command)]
    /\ UNCHANGED <<browser, analytics, store>>
    /\ UNCHANGED <<sessionVars, monitorVars, selectedIp, restVars>>

\* check_operation_impact answers, or throws (lines 91-102)
ExecuteChecked(ok) ==
    \E c \in Answering("executeCommand", "check_operation_impact") :
        LET warn == assess(<<toUpperCase(c.arg)[1]>>, c.arg, store)
            rest == calls (-) SetToBag({c})
        IN  /\ IF ok /\ warn = "critical"
               THEN /\ cli' = [cli EXCEPT !.warning = warn]
                    /\ calls' = rest
               ELSE /\ cli' = [cli EXCEPT !.loading = TRUE, !.warning = NULL]
                    /\ calls' = rest (+) SetToBag({Call("executeCommand", c.id,
                                                        "execute_command", c.arg)})
            /\ last' = [op |-> "executeCommand.checked", id |-> c.id, ok |-> ok]
            /\ UNCHANGED <<browser, analytics, store>>
            /\ UNCHANGED <<sessionVars, monitorVars, selectedIp, restVars>>

\* execute_command answers, or throws (lines 107-135)
ExecuteDone(outcome) ==
    \E c \in Answering("executeCommand", "execute_command") :
        LET entry == [command |-> trim(c.arg), result |-> CommandResult(outcome)]
        IN  /\ cli' = IF outcome = "throws"
                      THEN [cli EXCEPT !.history = Append(@, entry), !.loading = FALSE]
                      ELSE [cli EXCEPT !.history = Append(@, entry), !.loading = FALSE,
                                       !.command = <<"">>, !.historyIndex = -1]
            /\ calls' = calls (-) SetToBag({c})
            /\ last' = [op |-> "executeCommand.done", id |-> c.id, ok |-> outcome = "reply"]
            /\ UNCHANGED <<browser, analytics, store>>
            /\ UNCHANGED <<sessionVars, monitorVars, selectedIp, restVars>>

\* confirmDangerous (lines 164-189), the warning's "Execute Anyway" (:218)
confirmDangerous ==
    /\ cli.warning # NULL
    /\ CanCall(MaxCliCalls)
    /\ Len(cli.history) < MaxHistory
    /\ ExecuteHead("confirmDangerous", cli.command)
    /\ last' = [op |-> "confirmDangerous", id |-> activeServerId, ok |-> TRUE]
    /\ UNCHANGED <<browser, analytics, store>>
    /\ UNCHANGED <<sessionVars, monitorVars, selectedIp, restVars>>

\* execute_command answers inside confirmDangerous (lines 168-188)
ConfirmDone(outcome) ==
    \E c \in Answering("confirmDangerous", "execute_command") :
        LET entry == [command |-> trim(c.arg), result |-> CommandResult(outcome)]
        IN  /\ cli' = IF outcome = "throws"
                      THEN [cli EXCEPT !.history = Append(@, entry), !.loading = FALSE]
                      ELSE [cli EXCEPT !.history = Append(@, entry), !.loading = FALSE,
                                       !.command = <<"">>]
            /\ calls' = calls (-) SetToBag({c})
            /\ last' = [op |-> "confirmDangerous.done", id |-> c.id, ok |-> outcome = "reply"]
            /\ UNCHANGED <<browser, analytics, store>>
            /\ UNCHANGED <<sessionVars, monitorVars, selectedIp, restVars>>

\* the warning's Cancel button (lines 221-223)
cancelWarning ==
    /\ cli.warning # NULL
    /\ cli' = [cli EXCEPT !.warning = NULL]
    /\ last' = [op |-> "cancelWarning", id |-> activeServerId, ok |-> TRUE]
    /\ UNCHANGED <<browser, analytics, calls, store>>
    /\ UNCHANGED <<sessionVars, monitorVars, selectedIp, restVars>>

\* the clear button (lines 199-206), disabled while the history is empty
clearHistory ==
    /\ cli.history # << >>
    /\ cli' = [cli EXCEPT !.history = << >>]
    /\ last' = [op |-> "clearHistory", id |-> activeServerId, ok |-> TRUE]
    /\ UNCHANGED <<browser, analytics, calls, store>>
    /\ UNCHANGED <<sessionVars, monitorVars, selectedIp, restVars>>

\* handleKeyDown (lines 138-162), ArrowUp and ArrowDown
ArrowUp ==
    /\ ~cli.loading
    /\ cli.historyIndex < Len(cli.history) - 1
    /\ cli' = [cli EXCEPT !.historyIndex = @ + 1,
                          !.command = cli.history[Len(cli.history) - 1 - cli.historyIndex].command]
    /\ last' = [op |-> "ArrowUp", id |-> activeServerId, ok |-> TRUE]
    /\ UNCHANGED <<browser, analytics, calls, store>>
    /\ UNCHANGED <<sessionVars, monitorVars, selectedIp, restVars>>

\* An index beyond the history makes the command undefined; the hint effect
\* (lines 73-80) then throws and the panel is gone: no step is taken.
ArrowDown ==
    /\ ~cli.loading
    /\ cli.historyIndex >= 0
    /\ cli.historyIndex = 0 \/ Len(cli.history) - cli.historyIndex + 1 \in DOMAIN cli.history
    /\ cli' = IF cli.historyIndex > 0
              THEN [cli EXCEPT !.historyIndex = @ - 1,
                               !.command = cli.history[Len(cli.history) - cli.historyIndex + 1].command]
              ELSE [cli EXCEPT !.historyIndex = -1, !.command = <<"">>]
    /\ last' = [op |-> "ArrowDown", id |-> activeServerId, ok |-> TRUE]
    /\ UNCHANGED <<browser, analytics, calls, store>>
    /\ UNCHANGED <<sessionVars, monitorVars, selectedIp, restVars>>

(***************************************************************************)
(* KeyBrowser (components/KeyBrowser.tsx).  Keys are numbered; a cursor is *)
(* the number of the last key returned, 0 standing for the cursor "0".     *)
(***************************************************************************)
ScanCount == 100   \* count: 100

BrowserPatterns == {<<"*">>, <<"user:*">>}

\* scan_keys (spec 4.3, 6): the page after the cursor, the cursor to go on
\* with, and whether keys remain.
scan(keys, from, count) ==
    LET rest == {k \in keys : k > from}
        size == Min(count, Cardinality(rest))
        more == size < Cardinality(rest)
    IN  [keys |-> [i \in 1..size |-> from + i],
         cursor |-> IF more THEN from + size ELSE 0, hasMore |-> more]

\* the pattern input's onChange (line 758)
setPattern(pattern) ==
    /\ pattern # browser.pattern
    /\ browser' = [browser EXCEPT !.pattern = pattern]
    /\ last' = [op |-> "setPattern", id |-> activeServerId, ok |-> TRUE]
    /\ UNCHANGED <<cli, analytics, calls, store>>
    /\ UNCHANGED <<sessionVars, monitorVars, selectedIp, restVars>>

\* handleSearch (lines 194-199) up to checkImpact's invoke (112-118); by
\* the Scan button, disabled while loading (763), or by Enter (759)
handleSearch ==
    /\ CanCall(MaxTasks)
    /\ calls' = calls (+) SetToBag({Call("handleSearch", activeServerId,
                                         "check_operation_impact", browser.pattern)})
    /\ last' = [op |-> "handleSearch", id |-> activeServerId, ok |-> ~browser.loading]
    /\ UNCHANGED <<cli, browser, analytics, store>>
    /\ UNCHANGED <<sessionVars, monitorVars, selectedIp, restVars>>

\* scanKeys up to its invoke (lines 131-142); `pattern || "*"`
ScanHead(prev, rest, id, pattern, from, newSearch) ==
    /\ browser' = [prev EXCEPT !.loading = TRUE, !.error = NULL]
    /\ calls' = rest (+) SetToBag({Call("scanKeys", id, "scan_keys",
                     [pattern |-> IF pattern = <<"">> THEN <<"*">> ELSE pattern,
                      cursor |-> from, newSearch |-> newSearch])})

\* check_operation_impact answers, or throws (lines 119-127, 195-198)
SearchChecked(ok) ==
    \E c \in Answering("handleSearch", "check_operation_impact") :
        LET warn == assess(<<"SCAN">>, c.arg, store)
        IN  /\ IF ok /\ warn \in {"critical", "warning"}
               THEN /\ browser' = [browser EXCEPT !.warning = warn]
                    /\ calls' = calls (-) SetToBag({c})
               ELSE ScanHead(IF ok THEN [browser EXCEPT !.warning = NULL] ELSE browser,
                             calls (-) SetToBag({c}), c.id, c.arg, 0, TRUE)
            /\ last' = [op |-> "handleSearch.checked", id |-> c.id, ok |-> ok]
            /\ UNCHANGED <<cli, analytics, store>>
            /\ UNCHANGED <<sessionVars, monitorVars, selectedIp, restVars>>

\* the Load More button (lines 796-806): scanKeys(false)
loadMore ==
    /\ browser.hasMore
    /\ ~browser.loading
    /\ CanCall(MaxTasks)
    /\ ScanHead(browser, calls, activeServerId, browser.pattern, browser.cursor, FALSE)
    /\ last' = [op |-> "loadMore", id |-> activeServerId, ok |-> TRUE]
    /\ UNCHANGED <<cli, analytics, store>>
    /\ UNCHANGED <<sessionVars, monitorVars, selectedIp, restVars>>

\* scan_keys answers, or throws (lines 144-155)
ScanDone(ok) ==
    \E c \in Answering("scanKeys", "scan_keys") :
        LET result == scan(store, c.arg.cursor, ScanCount)
        IN  /\ browser' =
                   IF ok
                   THEN [browser EXCEPT !.keys = IF c.arg.newSearch THEN result.keys
                                                 ELSE @ \o result.keys,
                                        !.cursor = result.cursor,
                                        !.hasMore = result.hasMore,
                                        !.loading = FALSE]
                   ELSE [browser EXCEPT !.error = "scan failed", !.loading = FALSE]
            /\ calls' = calls (-) SetToBag({c})
            /\ last' = [op |-> IF c.arg.newSearch THEN "scanKeys.search" ELSE "scanKeys.more",
                        id |-> c.id, ok |-> ok]
            /\ UNCHANGED <<cli, analytics, store>>
            /\ UNCHANGED <<sessionVars, monitorVars, selectedIp, restVars>>

\* the warning's close button (lines 741-748)
dismissWarning ==
    /\ browser.warning # NULL
    /\ browser' = [browser EXCEPT !.warning = NULL]
    /\ last' = [op |-> "dismissWarning", id |-> activeServerId, ok |-> TRUE]
    /\ UNCHANGED <<cli, analytics, calls, store>>
    /\ UNCHANGED <<sessionVars, monitorVars, selectedIp, restVars>>

\* get_key_value (spec 4.3): the value stored under the key.  A KeyValue is
\* reduced to the number of the key it is the value of; 0 is null.
get_key_value(key) == key

\* loadKeyValue (lines 158-165), by a click on a listed key (:818)
loadKeyValue(key) ==
    /\ CanCall(MaxTasks)
    /\ \E i \in DOMAIN browser.keys : browser.keys[i] = key
    /\ browser' = [browser EXCEPT !.selectedKey = key, !.loadingValue = TRUE, !.error = ""]
    /\ calls' = calls (+) SetToBag({Call("loadKeyValue", activeServerId, "get_key_value",
                                         [key |-> key])})
    /\ last' = [op |-> "loadKeyValue", id |-> activeServerId, ok |-> TRUE]
    /\ UNCHANGED <<cli, analytics, store>>
    /\ UNCHANGED <<sessionVars, monitorVars, selectedIp, restVars>>

\* get_key_value answers, or throws (lines 163-175)
KeyValueDone(ok) ==
    \E c \in Answering("loadKeyValue", "get_key_value") :
        /\ browser' = IF ok
                      THEN [browser EXCEPT !.keyValue = get_key_value(c.arg.key),
                                           !.loadingValue = FALSE]
                      ELSE [browser EXCEPT !.error = "load failed", !.keyValue = 0,
                                           !.loadingValue = FALSE]
        /\ calls' = calls (-) SetToBag({c})
        /\ last' = [op |-> "loadKeyValue.done", id |-> c.id, ok |-> ok]
        /\ UNCHANGED <<cli, analytics, store>>
        /\ UNCHANGED <<sessionVars, monitorVars, selectedIp, restVars>>

(***************************************************************************)
(* DatabaseAnalytics (components/DatabaseAnalytics.tsx).  The two calls of *)
(* one loadAnalysis carry the same number in arg; the one that answered    *)
(* first waits at "resolved" for Promise.all to settle.                    *)
(***************************************************************************)
\* bulk_delete (spec 4.3): iterates over the matching keys to the end,
\* deleting as it goes and collecting the failures.
bulk_delete_aborting(matching, failing) ==
    LET RECURSIVE Loop(_)
        Loop(keys) ==
            IF keys = {} THEN [deletedCount |-> 0, failedCount |-> 0, errors |-> << >>]
            ELSE LET k == CHOOSE x \in keys : \A y \in keys : x >= y
                     before == Loop(keys \ {k})
                 IN  IF before.failedCount > 0 THEN before
                     ELSE IF k \in failing
                     THEN [before EXCEPT !.failedCount = @ + 1,
                                         !.errors = Append(@, "delete failed")]
                     ELSE [before EXCEPT !.deletedCount = @ + 1]
    IN  Loop(matching)

bulk_delete(matching, failing) ==
    LET RECURSIVE Loop(_)
        Loop(keys) ==
            IF keys = {} THEN [deletedCount |-> 0, failedCount |-> 0, errors |-> << >>]
            ELSE LET k == CHOOSE x \in keys : \A y \in keys : x >= y
                     before == Loop(keys \ {k})
                 IN  IF k \in failing
                     THEN [before EXCEPT !.failedCount = @ + 1,
                                         !.errors = Append(@, "delete failed")]
                     ELSE [before EXCEPT !.deletedCount = @ + 1]
    IN  Loop(matching)

\* loadAnalysis up to its Promise.all (lines 58-63): both commands are
\* invoked at once.
LoadAnalysisHead(prev, rest, id) ==
    LET n == CHOOSE k \in 1..(BagCardinality(rest) + 1) :
                 \A c \in BagToSet(rest) : c.op = "loadAnalysis" => c.arg.all # k
    IN  /\ analytics' = [prev EXCEPT !.loading = TRUE]
        /\ calls' = rest (+) SetToBag({Call("loadAnalysis", id, "analyze_database", [all |-> n]),
                                       Call("loadAnalysis", id, "analyze_clients", [all |-> n])})

\* the Refresh button (line 119), disabled while loading
loadAnalysis ==
    /\ ~analytics.loading
    /\ BagCardinality(calls) + 2 <= MaxTasks
    /\ LoadAnalysisHead(analytics, calls, activeServerId)
    /\ last' = [op |-> "loadAnalysis", id |-> activeServerId, ok |-> TRUE]
    /\ UNCHANGED <<cli, browser, store>>
    /\ UNCHANGED <<sessionVars, monitorVars, selectedIp, restVars>>

\* analyze_database or analyze_clients answers, or throws (lines 60-70)
AnalysisAnswered(ok) ==
    \E pc \in {"analyze_database", "analyze_clients"} :
      \E c \in Answering("loadAnalysis", pc) :
        LET others == {d \in BagToSet(calls) :
                          d.op = "loadAnalysis" /\ d.arg = c.arg /\ d.pc # c.pc}
            first == {d \in others : d.pc = "resolved"}
            rest == calls (-) SetToBag({c})
        IN  /\ IF others = {}
               THEN /\ calls' = rest
                    /\ UNCHANGED analytics
               ELSE IF ~ok
               THEN /\ calls' = rest (-) SetToBag(first)
                    /\ analytics' = [analytics EXCEPT !.loading = FALSE]
               ELSE IF first = {}
               THEN /\ calls' = rest (+) SetToBag({[c EXCEPT !.pc = "resolved",
                                                              !.running = FALSE]})
                    /\ UNCHANGED analytics
               ELSE /\ calls' = rest (-) SetToBag(first)
                    /\ analytics' = [analytics EXCEPT !.analysis = "database analysis",
                                                      !.clientAnalysis = "client analysis",
                                                      !.loading = FALSE]
            /\ last' = [op |-> "loadAnalysis.answered", id |-> c.id, ok |-> ok]
            /\ UNCHANGED <<cli, browser, store>>
            /\ UNCHANGED <<sessionVars, monitorVars, selectedIp, restVars>>

\* the pattern input of the bulk tab (line 469)
setBulkPattern(pattern) ==
    /\ pattern # analytics.bulkPattern
    /\ analytics' = [analytics EXCEPT !.bulkPattern = pattern]
    /\ last' = [op |-> "setBulkPattern", id |-> activeServerId, ok |-> TRUE]
    /\ UNCHANGED <<cli, browser, calls, store>>
    /\ UNCHANGED <<sessionVars, monitorVars, selectedIp, restVars>>

\* handleBulkDelete (lines 77-86), confirmed by the user; the button is
\* disabled without a pattern and while bulkLoading (475)
handleBulkDelete ==
    /\ analytics.bulkPattern # <<"">>
    /\ ~analytics.bulkLoading
    /\ CanCall(MaxTasks)
    /\ analytics' = [analytics EXCEPT !.bulkLoading = TRUE]
    /\ calls' = calls (+) SetToBag({Call("handleBulkDelete", activeServerId, "bulk_delete",
                                         analytics.bulkPattern)})
    /\ last' = [op |-> "handleBulkDelete", id |-> activeServerId, ok |-> TRUE]
    /\ UNCHANGED <<cli, browser, store>>
    /\ UNCHANGED <<sessionVars, monitorVars, selectedIp, restVars>>

\* bulk_delete answers, or throws (lines 87-93); the keys of failing are
\* the ones whose deletion fails.  loadAnalysis is started, not awaited.
BulkDone(ok, failing) ==
    \E c \in Answering("handleBulkDelete", "bulk_delete") :
        LET result == bulk_delete(store, failing)
            rest == calls (-) SetToBag({c})
        IN  /\ IF ok
               THEN /\ BagCardinality(rest) + 2 <= MaxTasks
                    /\ store' = store \cap failing
                    /\ LoadAnalysisHead([analytics EXCEPT !.bulkResult = result,
                                                          !.bulkLoading = FALSE],
                                        rest, c.id)
               ELSE /\ failing = {}
                    /\ calls' = rest
                    /\ analytics' = [analytics EXCEPT !.bulkLoading = FALSE]
                    /\ UNCHANGED store
            /\ last' = [op |-> "handleBulkDelete.done", id |-> c.id, ok |-> ok]
            /\ UNCHANGED <<cli, browser>>
            /\ UNCHANGED <<sessionVars, monitorVars, selectedIp, restVars>>

(***************************************************************************)
(* AnalyticsPanel (components/AnalyticsPanel.tsx).  The analytics cell is  *)
(* the empty sequence for null and the sequence of the one bundle          *)
(* otherwise; a field of the bundle that is null or undefined is NULL.     *)
(***************************************************************************)
InitAdvanced ==
    [analytics |-> << >>, loading |-> FALSE, activeTab |-> "commands",
     memoryLoading |-> FALSE, latencyLoading |-> FALSE]

Tabs == {"commands", "memory", "diagnostics"}

\* get_advanced_analytics (spec 6): the bundle without its heavy parts
AdvancedAnalytics == [memoryStats |-> NULL, latencyDoctor |-> NULL]

\* what get_memory_analytics and get_latency_analytics may do: answer with
\* data, answer with null, or throw
HeavyResults == {"data", NULL, "throws"}

\* The effect on [activeTab, analytics] (lines 73-80) with the cells as the
\* render left them, and the head of the loader it calls (41-44, 58-61).
TabEffect(next, rest, id) ==
    LET loaded == next.analytics # << >>
    IN  IF loaded /\ next.activeTab = "memory" /\ next.analytics[1].memoryStats = NULL
        THEN /\ advanced' = [next EXCEPT !.memoryLoading = TRUE]
             /\ calls' = rest (+) SetToBag({Call("loadMemoryAnalytics", id,
                                                 "get_memory_analytics", [tab |-> "memory"])})
        ELSE IF loaded /\ next.activeTab = "diagnostics"
                       /\ next.analytics[1].latencyDoctor = NULL
        THEN /\ advanced' = [next EXCEPT !.latencyLoading = TRUE]
             /\ calls' = rest (+) SetToBag({Call("loadLatencyAnalytics", id,
                                                 "get_latency_analytics", [tab |-> "diagnostics"])})
        ELSE /\ advanced' = next
             /\ calls' = rest

\* the tabs (line 143)
setActiveTab(tab) ==
    /\ tab # advanced.activeTab
    /\ CanCall(MaxTasks)
    /\ TabEffect([advanced EXCEPT !.activeTab = tab], calls, activeServerId)
    /\ last' = [op |-> "setActiveTab", id |-> activeServerId, ok |-> TRUE]
    /\ UNCHANGED <<cli, browser, analytics, store>>
    /\ UNCHANGED <<sessionVars, monitorVars, selectedIp, effectVars, intended>>

\* loadAnalytics (lines 28-31), by the Refresh or the Load Analytics button
\* (115, 133)
loadAnalytics ==
    /\ ~advanced.loading
    /\ CanCall(MaxTasks)
    /\ advanced' = [advanced EXCEPT !.loading = TRUE]
    /\ calls' = calls (+) SetToBag({Call("loadAnalytics", activeServerId,
                                         "get_advanced_analytics", [tab |-> "all"])})
    /\ last' = [op |-> "loadAnalytics", id |-> activeServerId, ok |-> TRUE]
    /\ UNCHANGED <<cli, browser, analytics, store>>
    /\ UNCHANGED <<sessionVars, monitorVars, selectedIp, effectVars, intended>>

\* get_advanced_analytics answers, or throws (lines 31-37); a new bundle
\* runs the effect
AnalyticsDone(ok) ==
    \E c \in Answering("loadAnalytics", "get_advanced_analytics") :
        /\ IF ok
           THEN TabEffect([advanced EXCEPT !.analytics = <<AdvancedAnalytics>>,
                                           !.loading = FALSE],
                          calls (-) SetToBag({c}), c.id)
           ELSE /\ advanced' = [advanced EXCEPT !.loading = FALSE]
                /\ calls' = calls (-) SetToBag({c})
        /\ last' = [op |-> "loadAnalytics.done", id |-> c.id, ok |-> ok]
        /\ UNCHANGED <<cli, browser, analytics, store>>
        /\ UNCHANGED <<sessionVars, monitorVars, selectedIp, effectVars, intended>>

\* setAnalytics(prev => prev ? { ...prev, [field]: value } : null) and the
\* finally block (lines 45-54, 62-70): with a bundle there, the updater
\* makes a new object and the effect runs again.
AfterHeavy(c, field, flag, result) ==
    LET done == [advanced EXCEPT ![flag] = FALSE]
        rest == calls (-) SetToBag({c})
    IN  IF result = "throws" \/ advanced.analytics = << >>
        THEN /\ advanced' = done
             /\ calls' = rest
        ELSE TabEffect([done EXCEPT !.analytics = <<[@[1] EXCEPT ![field] = result]>>],
                       rest, c.id)

\* get_memory_analytics answers, or throws (lines 43-54)
MemoryDone(result) ==
    \E c \in Answering("loadMemoryAnalytics", "get_memory_analytics") :
        /\ AfterHeavy(c, "memoryStats", "memoryLoading", result)
        /\ last' = [op |-> "loadMemoryAnalytics.done", id |-> c.id, ok |-> result = "data"]
        /\ UNCHANGED <<cli, browser, analytics, store>>
        /\ UNCHANGED <<sessionVars, monitorVars, selectedIp, effectVars, intended>>

\* get_latency_analytics answers, or throws (lines 60-70)
LatencyDone(result) ==
    \E c \in Answering("loadLatencyAnalytics", "get_latency_analytics") :
        /\ AfterHeavy(c, "latencyDoctor", "latencyLoading", result)
        /\ last' = [op |-> "loadLatencyAnalytics.done", id |-> c.id, ok |-> result = "data"]
        /\ UNCHANGED <<cli, browser, analytics, store>>
        /\ UNCHANGED <<sessionVars, monitorVars, selectedIp, effectVars, intended>>

(***************************************************************************)
(* The panels as mounted: nothing typed, nothing loaded, nothing invoked.  *)
(***************************************************************************)
InitPanels ==
    /\ cli = [command |-> <<"">>, history |-> << >>, historyIndex |-> -1,
              warning |-> NULL, loading |-> FALSE]
    /\ browser = [pattern |-> <<"*">>, keys |-> << >>, cursor |-> 0, hasMore |-> FALSE,
                  loading |-> FALSE, warning |-> NULL, error |-> NULL,
                  selectedKey |-> 0, keyValue |-> 0, loadingValue |-> FALSE]
    /\ analytics = [analysis |-> NULL, clientAnalysis |-> NULL, loading |-> FALSE,
                    bulkPattern |-> <<"">>, bulkResult |-> NULL, bulkLoading |-> FALSE]
    /\ advanced = InitAdvanced

\* The mount effect is over: listen() has answered and its unlisten function
\* is kept (useRedis.ts:17-31).  SpecMount follows the effect itself.
InitEffect ==
    /\ mounted = TRUE
    /\ unlistenRef = 1
    /\ listeners = {1}

(***************************************************************************)
(* Initial state: the hook as constructed, nothing loaded, nothing queued. *)
(***************************************************************************)
InitMonitor ==
    /\ monitorEvents = << >>
    /\ ipStats = << >>
    /\ selectedIp = NULL
    /\ pending = << >>
    /\ fed = << >>
    /\ prevRun = [fed |-> << >>, stats |-> << >>]
    /\ clock = 0

InitSessionIdle ==
    /\ servers = << >>
    /\ activeServerId = NULL
    /\ connectionStates = << >>
    /\ tasks = EmptyBag
    /\ saved = << >>
    /\ stream = [id \in Ids |-> "idle"]

InitAgg ==
    /\ InitMonitor
    /\ InitPanels
    /\ InitEffect
    /\ calls = EmptyBag
    /\ store = {}
    /\ InitSessionIdle
    /\ last = [op |-> "init", id |-> NULL, ok |-> TRUE]
    /\ intended = IntendedOf(saved)

\* The hook as mounted: loadServers is waiting for get_servers.
Init ==
    /\ InitMonitor
    /\ InitPanels
    /\ InitEffect
    /\ calls = EmptyBag
    /\ store = {}
    /\ servers = << >>
    /\ activeServerId = NULL
    /\ connectionStates = << >>
    /\ tasks = SetToBag({Plain("loadServers", NULL, "get_servers")})
    /\ saved \in StoredLists
    /\ stream = [id \in Ids |-> "idle"]
    /\ last = [op |-> "init", id |-> NULL, ok |-> TRUE]
    /\ intended = IntendedOf(saved)

(***************************************************************************)
(* Spec: profiles, sessions and the monitor of each session.               *)
(***************************************************************************)
NextPlain ==
    \/ \E ok \in BOOLEAN : LoadServersDone(ok)
    \/ \E id \in Ids : Connect(id)
    \/ \E id \in Ids : handleSelectServer(id)
    \/ \E ok \in BOOLEAN : ConnectDone(ok)
    \/ ConnectInfoDone
    \/ ConnectClientsDone
    \/ \E id \in Ids : Disconnect(id)
    \/ \E ok \in BOOLEAN : DisconnectDone(ok)
    \/ \E id \in Ids : removeServer(id)
    \/ \E ok \in BOOLEAN : RemoveDisconnected(ok)
    \/ \E ok \in BOOLEAN : RemoveSaved(ok)
    \/ \E id \in Ids : startMonitoring(id)
    \/ \E ok \in BOOLEAN : StartMonitorDone(ok)
    \/ \E id \in Ids : stopMonitoring(id)
    \/ \E ok \in BOOLEAN : StopMonitorDone(ok)
    \/ \E id \in Ids : ConnectionLoss(id)

NextSession ==
    \/ NextPlain
    \/ \E ok \in BOOLEAN : ConnectDecrypted(ok)

Spec == Init /\ [][NextSession]_vars

(***************************************************************************)
(* SpecAgg: the aggregation path alone, over a small alphabet of events.   *)
(***************************************************************************)
RawLine(cmd) == IF cmd = "GET" THEN <<"G", "E", "T">> ELSE <<"H", "S", "E", "T">>

EmitAny ==
    /\ clock < MaxEvents
    /\ \E t \in Timestamps, ip \in Ips, cmd \in Commands :
          OnMonitorEvent(MonitorEvent(t, ip, cmd, RawLine(cmd)))

NextAgg ==
    \/ EmitAny
    \/ Render
    \/ clearMonitorEvents

SpecAgg == InitAgg /\ [][NextAgg]_vars

(***************************************************************************)
(* SpecMount: the mount effect of the hook (useRedis.ts:17-31), from the   *)
(* moment setupEventListeners is waiting for listen().  A listener is      *)
(* named by the handle listen() answers with; 0 stands for the null ref.   *)
(***************************************************************************)
Handle == 1

InitMount ==
    /\ InitMonitor
    /\ InitPanels
    /\ mounted = TRUE
    /\ unlistenRef = 0
    /\ listeners = {}
    /\ calls = EmptyBag
    /\ store = {}
    /\ servers = << >>
    /\ activeServerId = NULL
    /\ connectionStates = << >>
    /\ tasks = SetToBag({Plain("setupEventListeners", NULL, "listen")})
    /\ saved = << >>
    /\ stream = [id \in Ids |-> "idle"]
    /\ last = [op |-> "init", id |-> NULL, ok |-> TRUE]
    /\ intended = IntendedOf(saved)

\* listen() answers: the listener is registered and its unlisten function
\* is stored in the ref (useRedis.ts:26), mounted or not.
ListenDone ==
    \E t \in Waiting("setupEventListeners", "listen") :
        /\ listeners' = listeners \cup {Handle}
        /\ unlistenRef' = Handle
        /\ tasks' = Resume(t)
        /\ last' = [op |-> "listen.done", id |-> NULL, ok |-> TRUE]
        /\ UNCHANGED <<servers, activeServerId, connectionStates, saved, stream>>
        /\ UNCHANGED <<monitorVars, selectedIp, panelVars, advanced, mounted, intended>>

\* The cleanup of the mount effect (useRedis.ts:20-22), with the ref as it
\* is at that moment.
Unmount ==
    /\ mounted
    /\ mounted' = FALSE
    /\ listeners' = IF unlistenRef # 0 THEN listeners \ {unlistenRef} ELSE listeners
    /\ last' = [op |-> "unmount", id |-> NULL, ok |-> TRUE]
    /\ UNCHANGED <<monitorVars, selectedIp, sessionVars, panelVars>>
    /\ UNCHANGED <<advanced, unlistenRef, intended>>

\* The backend emits an event: every registered listener runs once.
EmitListened ==
    /\ listeners # {}
    /\ EmitAny

NextMount ==
    \/ ListenDone
    \/ Unmount
    \/ EmitListened
    \/ mounted /\ Render
    \/ mounted /\ clearMonitorEvents

SpecMount == InitMount /\ [][NextMount]_vars

(***************************************************************************)
(* SpecCap: a long run of events, one per tick of the backend's clock, to  *)
(* fill the replay buffer beyond its cap.  The n-th event carries n as its *)
(* timestamp and alternates between the two addresses.                     *)
(***************************************************************************)
TickEvent(n) ==
    MonitorEvent(n, IF n % 2 = 0 THEN "10.0.0.2" ELSE "10.0.0.1", "GET", RawLine("GET"))

EmitTick ==
    /\ clock < ReplayCap + MaxOverflow
    /\ OnMonitorEvent(TickEvent(clock + 1))

NextCap ==
    \/ EmitTick
    \/ Render

SpecCap == InitAgg /\ [][NextCap]_vars

(***************************************************************************)
(* SpecFrame: the session operations next to a statistics table that       *)
(* already holds events, with the clear button and the address filter.     *)
(* The one profile is stored without a password.                           *)
(***************************************************************************)
FreshMonitor ==
    [events |-> << >>, stats |-> << >>, fed |-> << >>,
     prev |-> [fed |-> << >>, stats |-> << >>]]

\* The monitor state after the listener saw `feed` and React rendered.
AfterFeed(feed) == ApplyAll(FreshMonitor, [i \in 1..Len(feed) |-> EventUpdate(feed[i])])

FrameFeed ==
    <<MonitorEvent(1, "10.0.0.1", "GET", RawLine("GET")),
      MonitorEvent(2, "10.0.0.2", "HSET", RawLine("HSET"))>>

InitFrame ==
    /\ monitorEvents = AfterFeed(FrameFeed).events
    /\ ipStats = AfterFeed(FrameFeed).stats
    /\ fed = AfterFeed(FrameFeed).fed
    /\ prevRun = AfterFeed(FrameFeed).prev
    /\ clock = Len(FrameFeed)
    /\ pending = << >>
    /\ selectedIp = NULL
    /\ InitPanels
    /\ InitEffect
    /\ calls = EmptyBag
    /\ store = {}
    /\ servers = << >>
    /\ activeServerId = NULL
    /\ connectionStates = << >>
    /\ tasks = SetToBag({Plain("loadServers", NULL, "get_servers")})
    /\ saved = <<RedisServer("s1", "")>>
    /\ stream = [id \in Ids |-> "idle"]
    /\ last = [op |-> "init", id |-> NULL, ok |-> TRUE]
    /\ intended = IntendedOf(saved)

NextFrame ==
    \/ NextPlain
    \/ Render
    \/ clearMonitorEvents
    \/ \E ip \in {"10.0.0.1", NULL} : setSelectedIp(ip)

SpecFrame == InitFrame /\ [][NextFrame]_vars

(***************************************************************************)
(* SpecProfiles: the profile list being edited.  The list is loaded and    *)
(* the stored profile is idle or connected.                                *)
(***************************************************************************)
InitProfiles ==
    /\ InitMonitor
    /\ InitPanels
    /\ InitEffect
    /\ calls = EmptyBag
    /\ store = {}
    /\ saved \in StoredLists
    /\ servers = saved
    /\ \/ activeServerId = NULL /\ connectionStates = << >>
       \/ activeServerId = "s1" /\ connectionStates = [id \in {"s1"} |-> ConnectedState(id)]
    /\ tasks = EmptyBag
    /\ stream = [id \in Ids |-> "idle"]
    /\ last = [op |-> "init", id |-> NULL, ok |-> TRUE]
    /\ intended = IntendedOf(saved)

NextProfiles ==
    \/ \E password \in Plaintexts \cup {""} : addServer(password)
    \/ \E ok \in BOOLEAN : AddEncrypted(ok)
    \/ \E ok \in BOOLEAN : AddSaved(ok)
    \/ \E id \in Ids, password \in Plaintexts \cup {""} : updateServer(id, password)
    \/ \E ok \in BOOLEAN : UpdateEncrypted(ok)
    \/ \E ok \in BOOLEAN : UpdateSaved(ok)
    \/ \E ok \in BOOLEAN : UpdateDisconnected(ok)
    \/ \E id \in Ids : removeServer(id)
    \/ \E ok \in BOOLEAN : RemoveDisconnected(ok)
    \/ \E ok \in BOOLEAN : RemoveSaved(ok)

SpecProfiles == InitProfiles /\ [][NextProfiles]_vars

(***************************************************************************)
(* SpecVault: profiles are added to an empty list and connected; every     *)
(* stored blob is of this installation.                                    *)
(***************************************************************************)
InitVault == InitAgg

NextVault ==
    \/ \E password \in Plaintexts \cup {""} : addServer(password)
    \/ \E ok \in BOOLEAN : AddEncrypted(ok)
    \/ \E ok \in BOOLEAN : AddSaved(ok)
    \/ \E id \in NewIds : Connect(id)
    \/ \E id \in NewIds : handleSelectServer(id)
    \/ ConnectDecryptedOwn
    \/ \E ok \in BOOLEAN : ConnectDone(ok)
    \/ ConnectInfoDone
    \/ ConnectClientsDone

SpecVault == InitVault /\ [][NextVault]_vars

(***************************************************************************)
(* SpecEdit: the stored profile is edited in the dialog, its password      *)
(* field never touched, and connected.                                     *)
(***************************************************************************)
NextEdit ==
    \/ \E id \in Ids : handleSubmit(id)
    \/ \E ok \in BOOLEAN : UpdateEncrypted(ok)
    \/ \E ok \in BOOLEAN : UpdateSaved(ok)
    \/ \E ok \in BOOLEAN : UpdateDisconnected(ok)
    \/ \E id \in Ids : Connect(id)
    \/ \E id \in Ids : handleSelectServer(id)
    \/ ConnectDecryptedOwn
    \/ \E ok \in BOOLEAN : ConnectDone(ok)
    \/ ConnectInfoDone
    \/ ConnectClientsDone

SpecEdit == InitProfiles /\ [][NextEdit]_vars

(***************************************************************************)
(* The panels' specifications start with the profile "s1" connected and    *)
(* active, its keyspace large or small.                                    *)
(***************************************************************************)
InitActive ==
    /\ InitMonitor
    /\ InitPanels
    /\ InitEffect
    /\ servers = <<RedisServer("s1", "")>>
    /\ saved = servers
    /\ activeServerId = "s1"
    /\ connectionStates = [id \in {"s1"} |-> ConnectedState(id)]
    /\ stream = [id \in Ids |-> "idle"]
    /\ tasks = EmptyBag
    /\ last = [op |-> "init", id |-> NULL, ok |-> TRUE]
    /\ intended = IntendedOf(saved)

InitCli == InitActive /\ calls = EmptyBag /\ store = 1..KeyTotal

(***************************************************************************)
(* SpecCli: the command line of the active profile.                        *)
(***************************************************************************)
NextCli ==
    \/ \E line \in CliLines : setCommand(line)
    \/ executeCommand
    \/ \E ok \in BOOLEAN : ExecuteChecked(ok)
    \/ \E outcome \in Outcomes : ExecuteDone(outcome)
    \/ confirmDangerous
    \/ \E outcome \in Outcomes : ConfirmDone(outcome)
    \/ cancelWarning
    \/ clearHistory
    \/ ArrowUp
    \/ ArrowDown
    \/ BackendStart

SpecCli == InitCli /\ [][NextCli]_vars

(***************************************************************************)
(* SpecBrowser: the key browser of the active profile.  SpecBrowserLive    *)
(* adds that the backend answers and that the user goes on pressing Scan   *)
(* and closing the warning.                                                *)
(***************************************************************************)
InitBrowser == InitActive /\ calls = EmptyBag /\ store \in Keyspaces

NextBrowser ==
    \/ \E pattern \in BrowserPatterns : setPattern(pattern)
    \/ handleSearch
    \/ \E ok \in BOOLEAN : SearchChecked(ok)
    \/ loadMore
    \/ \E ok \in BOOLEAN : ScanDone(ok)
    \/ dismissWarning
    \/ BackendStart

SpecBrowser == InitBrowser /\ [][NextBrowser]_vars

SpecBrowserLive ==
    /\ SpecBrowser
    /\ WF_vars(BackendStart)
    /\ WF_vars(\E ok \in BOOLEAN : SearchChecked(ok))
    /\ WF_vars(\E ok \in BOOLEAN : ScanDone(ok))
    /\ WF_vars(dismissWarning)
    /\ SF_vars(handleSearch)

(***************************************************************************)
(* SpecValue: the key browser over the small keyspace, keys being listed   *)
(* and clicked.                                                            *)
(***************************************************************************)
InitValue == InitActive /\ calls = EmptyBag /\ store = 1..MaxKeys

NextValue ==
    \/ handleSearch
    \/ \E ok \in BOOLEAN : SearchChecked(ok)
    \/ \E ok \in BOOLEAN : ScanDone(ok)
    \/ BackendStart
    \/ \E key \in 1..MaxKeys : loadKeyValue(key)
    \/ \E ok \in BOOLEAN : KeyValueDone(ok)

SpecValue == InitValue /\ [][NextValue]_vars

(***************************************************************************)
(* SpecAdvanced: the AnalyticsPanel of the active profile, as mounted: the *)
(* mount effect (lines 82-84) has called loadAnalytics.                    *)
(***************************************************************************)
InitAdvancedPanel ==
    /\ InitMonitor
    /\ cli = [command |-> <<"">>, history |-> << >>, historyIndex |-> -1,
              warning |-> NULL, loading |-> FALSE]
    /\ browser = [pattern |-> <<"*">>, keys |-> << >>, cursor |-> 0, hasMore |-> FALSE,
                  loading |-> FALSE, warning |-> NULL, error |-> NULL,
                  selectedKey |-> 0, keyValue |-> 0, loadingValue |-> FALSE]
    /\ analytics = [analysis |-> NULL, clientAnalysis |-> NULL, loading |-> FALSE,
                    bulkPattern |-> <<"">>, bulkResult |-> NULL, bulkLoading |-> FALSE]
    /\ advanced = [InitAdvanced EXCEPT !.loading = TRUE]
    /\ InitEffect
    /\ servers = <<RedisServer("s1", "")>>
    /\ saved = servers
    /\ activeServerId = "s1"
    /\ connectionStates = [id \in {"s1"} |-> ConnectedState(id)]
    /\ stream = [id \in Ids |-> "idle"]
    /\ tasks = EmptyBag
    /\ last = [op |-> "init", id |-> NULL, ok |-> TRUE]
    /\ intended = IntendedOf(saved)
    /\ store = {}
    /\ calls = SetToBag({Call("loadAnalytics", "s1", "get_advanced_analytics",
                              [tab |-> "all"])})

NextAdvanced ==
    \/ \E tab \in Tabs : setActiveTab(tab)
    \/ loadAnalytics
    \/ \E ok \in BOOLEAN : AnalyticsDone(ok)
    \/ \E result \in HeavyResults : MemoryDone(result)
    \/ \E result \in HeavyResults : LatencyDone(result)
    \/ BackendStart

SpecAdvanced == InitAdvancedPanel /\ [][NextAdvanced]_vars

(***************************************************************************)
(* SpecAnalytics: the analytics panel of the active profile over the small *)
(* keyspace, as mounted: the mount effect has called loadAnalysis.         *)
(***************************************************************************)
InitAnalytics ==
    /\ InitActive
    /\ store = 1..MaxKeys
    /\ calls = SetToBag({Call("loadAnalysis", "s1", "analyze_database", [all |-> 1]),
                         Call("loadAnalysis", "s1", "analyze_clients", [all |-> 1])})

NextAnalytics ==
    \/ loadAnalysis
    \/ \E ok \in BOOLEAN : AnalysisAnswered(ok)
    \/ \E pattern \in {<<"">>, <<"user:*">>} : setBulkPattern(pattern)
    \/ handleBulkDelete
    \/ \E ok \in BOOLEAN : \E failing \in SUBSET store : BulkDone(ok, failing)
    \/ BackendStart

SpecAnalytics == InitAnalytics /\ [][NextAnalytics]_vars

(***************************************************************************)
(* SpecClassifier: one request to the Safety Classifier, drawn from the    *)
(* operation names and patterns the panels can send and a few more.        *)
(***************************************************************************)
Operations == DANGEROUS_COMMANDS \cup {<<"SCAN">>, <<"GET">>, <<"CONFIG">>}

Patterns == {<<"*">>, <<"user:*">>} \cup CliLines

InitClassifier ==
    /\ InitActive
    /\ store \in Keyspaces
    /\ \E o \in Operations, p \in Patterns :
          calls = SetToBag({Call("assess", "s1", "check_operation_impact",
                                 [operation |-> o, pattern |-> p])})

NextClassifier == BackendStart \/ Classify

SpecClassifier == InitClassifier /\ [][NextClassifier]_vars

(***************************************************************************)
(* Claims about connect, disconnect, removeServer and the monitor          *)
(***************************************************************************)

\* C1: at most one connect is in flight per profile id: connect_redis is
\* never awaited by two calls of connect(id) at once.
C1_OneConnectInFlight ==
    \A id \in Ids : InFlight("connect", id, "connect_redis") <= 1

\* C2: whenever a call of disconnect(id) has run to its end, by the
\* sidebar's button or inside removeServer, with disconnect_redis having
\* answered or thrown, the session of id has connected = false and
\* monitoring = false.
C2_DisconnectLeavesDisconnected ==
    last.op \in {"disconnect.done", "removeServer.disconnected"} =>
        /\ last.id \in DOMAIN connectionStates
        /\ connectionStates[last.id].connected = FALSE
        /\ connectionStates[last.id].monitoring = FALSE

\* C2 witness: disconnect_redis threw and the session is disconnected all the same.
C2_Witness ==
    /\ last.op = "disconnect.done"
    /\ last.ok = FALSE
    /\ connectionStates[last.id] = Disconnected(last.id)

\* C3: a step takes a profile out of the profile list, or out of the list
\* handed to save_servers, only when a removeServer of that id was waiting
\* for its disconnect, and the step leaves that session disconnected.
C3_RemoveDisconnectsFirst ==
    [][\A id \in Ids :
          (\/ HasProfile(servers, id) /\ ~HasProfile(servers', id)
           \/ HasProfile(saved, id) /\ ~HasProfile(saved', id))
          => /\ \E t \in Waiting("removeServer", "disconnect_redis") : t.id = id
             /\ id \in DOMAIN connectionStates'
             /\ connectionStates'[id] = Disconnected(id)]_vars

\* C3 witness: a removal got past its disconnect; the profile is gone from
\* both lists and its session is disconnected.
C3_Witness ==
    /\ last.op = "removeServer.disconnected"
    /\ ~HasProfile(servers, last.id)
    /\ ~HasProfile(saved, last.id)
    /\ connectionStates[last.id] = Disconnected(last.id)

\* C4: the monitoring flag of a session is true only while the session's
\* monitor stream is alive (streaming, or being stopped): it does not stay
\* true once the stream has ended.
C4_MonitoringFollowsStream ==
    \A id \in Ids : Monitoring(id) => stream[id] \in {"streaming", "stopping"}

(***************************************************************************)
(* Claims about the replay buffer and the statistics table                 *)
(***************************************************************************)
IndicesOf(ip) == {i \in 1..Len(fed) : fed[i].clientIp = ip}

MaxOf(S) == CHOOSE x \in S : \A y \in S : y <= x

RECURSIVE SumOver(_, _)
SumOver(S, f) ==
    IF S = {} THEN 0
    ELSE LET x == CHOOSE y \in S : TRUE IN f[x] + SumOver(S \ {x}, f)

PerCommand(stat, cmd) == IF cmd \in DOMAIN stat.commands THEN stat.commands[cmd] ELSE 0

\* C5: events reach both subscribers in emission order (in SpecCap the
\* timestamp of an event is its emission number): the update queue, the
\* events applied to the table so far and the replay buffer (newest first)
\* are each ordered by emission, whatever was capped or rendered in one
\* batch, and every entry's lastSeen is that of the address's latest event.
C5_EmissionOrderKept ==
    /\ \A i \in 1..(Len(monitorEvents) - 1) :
          monitorEvents[i].timestamp > monitorEvents[i + 1].timestamp
    /\ \A i \in 1..(Len(fed) - 1) : fed[i].timestamp < fed[i + 1].timestamp
    /\ \A i \in 1..(Len(pending) - 1) :
          pending[i].ev.timestamp < pending[i + 1].ev.timestamp
    /\ (fed # << >> /\ pending # << >>) =>
          fed[Len(fed)].timestamp < pending[1].ev.timestamp
    /\ \A ip \in DOMAIN ipStats :
          /\ \E i \in IndicesOf(ip) : ipStats[ip].lastSeen = fed[i].timestamp
          /\ \A i \in IndicesOf(ip) : ipStats[ip].lastSeen >= fed[i].timestamp

\* C5 witness: three events from two addresses, the last two rendered in
\* one batch; the buffer shows them newest first.
C5_Witness ==
    /\ last.op = "render"
    /\ clock = 3
    /\ Len(fed) = 3
    /\ monitorEvents[1].timestamp = 3
    /\ monitorEvents[3].timestamp = 1
    /\ ipStats["10.0.0.1"].lastSeen = 3
    /\ ipStats["10.0.0.2"].lastSeen = 2

\* C6: the entry of an address counts every event delivered for it since
\* the last clear exactly once: commandCount is their number, lastSeen the
\* timestamp of the latest of them, each per-command counter the number of
\* them with that command, bytesProcessed the sum of their raw lengths.
C6_EveryEventCounted ==
    \A ip \in Ips :
        LET idx == IndicesOf(ip)
            RawLen == [i \in idx |-> Len(fed[i].raw)]
        IN  idx # {} =>
              /\ ip \in DOMAIN ipStats
              /\ ipStats[ip].ip = ip
              /\ ipStats[ip].commandCount = Cardinality(idx)
              /\ ipStats[ip].lastSeen = fed[MaxOf(idx)].timestamp
              /\ \A cmd \in Commands :
                    PerCommand(ipStats[ip], cmd) =
                        Cardinality({i \in idx : fed[i].command = cmd})
              /\ ipStats[ip].bytesProcessed = SumOver(idx, RawLen)

\* C6 witness: an address sent the same command twice and another command once.
C6_Witness ==
    \E ip \in DOMAIN ipStats :
        /\ ipStats[ip].commandCount = 3
        /\ PerCommand(ipStats[ip], "GET") = 2
        /\ PerCommand(ipStats[ip], "HSET") = 1
        /\ ipStats[ip].bytesProcessed = 10

\* C7: the table has exactly one entry per distinct client address seen
\* since the last clear, and the commandCount values of its entries sum to
\* the number of events delivered since then.
C7_EntriesAndSum ==
    LET CountOf == [ip \in DOMAIN ipStats |-> ipStats[ip].commandCount]
    IN  /\ DOMAIN ipStats = {fed[i].clientIp : i \in 1..Len(fed)}
        /\ SumOver(DOMAIN ipStats, CountOf) = Len(fed)

\* C7 witness: three commands from two distinct addresses.
C7_Witness ==
    /\ Len(fed) = 3
    /\ Cardinality(DOMAIN ipStats) = 2
    /\ pending = << >>

\* C8: the replay buffer never holds more than ReplayCap events and holds
\* the most recent ones, newest first; the table keeps counting the events
\* the buffer has dropped.
C8_ReplayWindow ==
    LET n == Len(fed)
        CountOf == [ip \in DOMAIN ipStats |-> ipStats[ip].commandCount]
    IN  /\ Len(monitorEvents) <= ReplayCap
        /\ Len(monitorEvents) = Min(n, ReplayCap)
        /\ \A i \in 1..Len(monitorEvents) : monitorEvents[i] = fed[n + 1 - i]
        /\ SumOver(DOMAIN ipStats, CountOf) = n
        /\ \A ip \in DOMAIN ipStats : ipStats[ip].commandCount = Cardinality(IndicesOf(ip))

\* C8 witness: more events were delivered than the buffer holds.
C8_Witness ==
    /\ Len(fed) = ReplayCap + 2
    /\ Len(monitorEvents) = ReplayCap
    /\ monitorEvents[ReplayCap].timestamp = 3

\* C9: when the events fed since the last clear are the very sequence that
\* had been fed before that clear, the table is the table that clear found.
C9_ReplayYieldsSameTable == fed = prevRun.fed => ipStats = prevRun.stats

\* C9 witness: a sequence was fed, cleared and fed again.
C9_Witness ==
    /\ fed # << >>
    /\ fed = prevRun.fed
    /\ pending = << >>

\* C10: no step but a render changes the table or the replay buffer, so
\* connect, disconnect, startMonitoring, stopMonitoring, removeServer and
\* the address filter leave them alone; a render whose last update is a
\* clear leaves both empty.
C10_OnlyClearEmpties ==
    [][/\ last'.op # "render" => (ipStats' = ipStats /\ monitorEvents' = monitorEvents)
       /\ (last'.op = "render" /\ pending[Len(pending)].kind = "clear") =>
             (ipStats' = << >> /\ monitorEvents' = << >>)]_vars

\* C10 witness: a profile was disconnected and removed by removeServer, an
\* address was selected, and the table and the buffer still hold both events.
C10_Witness ==
    /\ last.op = "removeServer.saved"
    /\ selectedIp # NULL
    /\ Cardinality(DOMAIN ipStats) = 2
    /\ Len(monitorEvents) = 2

(***************************************************************************)
(* Claims about the outcome of connect                                     *)
(***************************************************************************)

\* C17: a decrypt failure during connect is not fatal: every call of connect
\* that leaves its decrypt step goes on to connect_redis, with the decrypted
\* password when decrypt_server_password answered and with the stored value
\* as it is when it threw; no step takes the call away at the decrypt step.
C17_DecryptFailureNotFatal ==
    [][\A t \in Waiting("connect", "decrypt_server_password") :
          CopiesIn(t, tasks') < CopiesIn(t, tasks) =>
              LET sent == IF last'.ok THEN decrypt(t.server.password)
                                      ELSE t.server.password
                  u == [t EXCEPT !.pc = "connect_redis", !.server.password = sent]
              IN  /\ last'.op = "connect.decrypted"
                  /\ CopiesIn(u, tasks') > CopiesIn(u, tasks)]_vars

\* C17 witness: decrypt_server_password threw and the call waits for
\* connect_redis with the stored ciphertext as its password.
C17_Witness ==
    /\ last.op = "connect.decrypted"
    /\ ~last.ok
    /\ \E t \in Waiting("connect", "connect_redis") :
           /\ t.id = last.id
           /\ t.server.password = Find(saved, last.id).password
           /\ t.server.password # ""

\* C18: connect(id) records its outcome in the session of id: after
\* connect_redis answered the session has connected = true and no error,
\* after it threw the session has connected = false and a non-empty error,
\* and while a call of connect(id) waits for its decrypt or its connect_redis
\* the session has connected = false.
C18_ConnectRecordsOutcome ==
    /\ last.op = "connect.done" =>
           /\ last.id \in DOMAIN connectionStates
           /\ IF last.ok
              THEN /\ connectionStates[last.id].connected = TRUE
                   /\ "error" \notin DOMAIN connectionStates[last.id]
              ELSE /\ connectionStates[last.id].connected = FALSE
                   /\ "error" \in DOMAIN connectionStates[last.id]
                   /\ connectionStates[last.id].error # ""
    /\ \A id \in Ids :
           InFlight("connect", id, "decrypt_server_password")
             + InFlight("connect", id, "connect_redis") > 0 => ~Connected(id)

\* Calls of connect(id) that have not had the answer of connect_redis yet.
ConnectsPending(id) ==
    InFlight("connect", id, "decrypt_server_password")
      + InFlight("connect", id, "connect_redis")

\* C19: connection failures are reported and not retried: a call of
\* connect(id) whose connect_redis threw writes the error to the session and
\* ends without issuing anything, and connect_redis is only ever called by
\* a call of connect the caller made (the connect button or the selection
\* of the profile), once per call, at once or after its decrypt step.
C19_NoAutomaticRetry ==
    [][\A id \in Ids :
          /\ ConnectsPending(id)' > ConnectsPending(id)
                => last'.op \in {"connect", "select"}
          /\ InFlight("connect", id, "connect_redis")'
                > InFlight("connect", id, "connect_redis")
                => last'.op \in {"connect", "select", "connect.decrypted"}
          /\ (last'.op = "connect.done" /\ ~last'.ok /\ last'.id = id)
                => /\ ConnectsPending(id)' = ConnectsPending(id) - 1
                   /\ connectionStates'[id] = FailedState(id)]_vars

\* C19 witness: connect_redis threw, the session holds the error and no
\* call of connect for the profile is left.
C19_Witness ==
    /\ last.op = "connect.done"
    /\ ~last.ok
    /\ connectionStates[last.id] = FailedState(last.id)
    /\ ConnectsPending(last.id) = 0

\* C20: every profile of the list handed to save_servers has no password or
\* a ciphertext that encrypt produced, never a password as it was typed.
C20_SavedListEncrypted ==
    \A i \in 1..Len(saved) :
        \/ saved[i].password = ""
        \/ /\ saved[i].password \notin Plaintexts
           /\ \E p \in Plaintexts \cup {encrypt(q) : q \in Plaintexts} :
                  saved[i].password = encrypt(p)

(***************************************************************************)
(* Claims about the panels and the backend commands                        *)
(***************************************************************************)

C16_FailureLeavesConnectivity ==
    [][(last'.op \in {"executeCommand.done", "confirmDangerous.done"} /\ ~last'.ok) =>
          LET entry == cli'.history[Len(cli'.history)]
          IN  /\ Len(cli'.history) = Len(cli.history) + 1
              /\ entry.result.success = FALSE
              /\ entry.result.result = ""
              /\ entry.result.error \notin {NULL, ""}
              /\ connectionStates' = connectionStates]_vars

\* C16 witness: execute_command threw; the entry holds the error and the
\* session is still connected.
C16_Witness ==
    /\ last.op = "executeCommand.done"
    /\ ~last.ok
    /\ cli.history # << >>
    /\ cli.history[Len(cli.history)].result = FailedResult("timeout")
    /\ Connected(last.id)

\* The scan_keys calls with the pattern, to be executed or being executed.
ScanSent(pattern) ==
    \E c \in BagToSet(calls) : c.pc = "scan_keys" /\ c.arg.pattern = pattern

\* C11: the verdict is advisory: once the key browser shows a warning for
\* the scan of the pattern *, and the user closes it and asks for the scan
\* again, the scan of * is sent to scan_keys (unless the user turns to
\* another pattern).
C11_AcknowledgedScanRuns ==
    [](browser.warning # NULL /\ browser.pattern = <<"*">>
         => <>(ScanSent(<<"*">>) \/ browser.pattern # <<"*">>))

\* C13: a search of the large keyspace returns ScanCount keys and hasMore =
\* true; the pages loaded after it follow one another, so the key list
\* never holds a key twice, and once hasMore = false it holds every key of
\* the keyspace.
C13_ScanPages ==
    LET listed == {browser.keys[i] : i \in DOMAIN browser.keys}
    IN  /\ (last.op = "scanKeys.search" /\ last.ok /\ Cardinality(store) = KeyTotal)
              => Len(browser.keys) = ScanCount /\ browser.hasMore
        /\ Cardinality(listed) = Len(browser.keys)
        /\ (browser.keys # << >> /\ ~browser.hasMore) => listed = store

\* C14: a bulk delete over the N keys matching the pattern, M of which fail
\* to delete, runs through all of them: it reports deletedCount = N - M,
\* failedCount = M and exactly M error messages, the N - M deleted keys are
\* gone and the M failed ones remain.
C14_BulkDeleteCounts ==
    [][(last'.op = "handleBulkDelete.done" /\ last'.ok)
       => LET N == Cardinality(store)
              M == Cardinality(store')
              result == analytics'.bulkResult
          IN  /\ store' \subseteq store
              /\ result.deletedCount = N - M
              /\ result.failedCount = M
              /\ Len(result.errors) = M]_vars

C14_Witness ==
    /\ last.op = "handleBulkDelete.done"
    /\ last.ok
    /\ analytics.bulkResult.deletedCount = MaxKeys - 1
    /\ analytics.bulkResult.failedCount = 1
    /\ Cardinality(store) = 1

\* the commands of profile id that the backend is executing
InFlightOn(id) == {c \in BagToSet(calls) : c.id = id /\ c.running}

C22_MonitoringImpliesConnected ==
    \A id \in DOMAIN connectionStates : Monitoring(id) => Connected(id)

\* C26: every connected id, and the active id when there is one, is the id
\* of a profile of the list, also when removeServer runs during a connect.
C26_OnlyExistingProfiles ==
    /\ \A id \in DOMAIN connectionStates : Connected(id) => HasProfile(servers, id)
    /\ activeServerId # NULL => HasProfile(servers, activeServerId)

\* the command name of the line is a dangerous one, letter case and the
\* blanks around the line ignored
DangerousByName(line) ==
    \E d \in DANGEROUS_COMMANDS : startsWith(toUpperCase(trim(line)), d)

\* C23: a line with a dangerous command name is handed to execute_command
\* only by the step that received the verdict of check_operation_impact
\* for it, the verdict not being critical, or by Execute Anyway.
C23_DangerousChecked ==
    [][\A c \in BagToSet(calls') \ BagToSet(calls) :
          (c.pc = "execute_command" /\ DangerousByName(c.arg))
          => \/ last'.op = "confirmDangerous"
             \/ /\ last'.op = "executeCommand.checked"
                /\ ~(last'.ok /\ assess(<<toUpperCase(c.arg)[1]>>, c.arg, store) = "critical")]_vars

\* C30: historyIndex is -1 or the position of a history entry.
C30_HistoryIndexValid ==
    \/ cli.historyIndex = -1
    \/ /\ 0 <= cli.historyIndex
       /\ cli.historyIndex < Len(cli.history)

C24_EditKeepsPassword ==
    [][\A t \in BagToSet(tasks') \ BagToSet(tasks) :
          (t.op = "connect" /\ t.pc = "connect_redis" /\ t.id \in DOMAIN intended)
          => t.server.password = intended[t.id]]_vars

\* the ids of the profiles of a list
IdsOf(list) == {list[i].id : i \in DOMAIN list}

\* C25: once every addServer, updateServer and removeServer call is over,
\* the list in memory and the list last handed to save_servers hold exactly
\* the profiles added and not removed, each with the password of its
\* latest edit (encrypted, or as typed when encrypt threw).
C25_ListsConsistent ==
    tasks = EmptyBag
    => /\ IdsOf(servers) = DOMAIN intended
       /\ saved = servers
       /\ \A i \in DOMAIN servers :
             servers[i].id \in DOMAIN intended
             => servers[i].password \in {intended[servers[i].id],
                                         encrypt(intended[servers[i].id])}

\* C28: when no get_key_value request is under way and a value is shown,
\* it is the value of the selected key.
C28_ValueOfSelectedKey ==
    (/\ \A c \in BagToSet(calls) : c.op # "loadKeyValue"
     /\ ~browser.loadingValue
     /\ browser.keyValue # 0)
    => browser.keyValue = get_key_value(browser.selectedKey)

\* C29: with a bundle loaded and a heavy tab selected, the answer to
\* get_memory_analytics or get_latency_analytics, whatever it is, does not
\* make the panel request it again.
C29_LazyLoadOnce ==
    [][\A c \in BagToSet(calls') \ BagToSet(calls) :
          c.pc \in {"get_memory_analytics", "get_latency_analytics"}
          => last'.op \notin {"loadMemoryAnalytics.done", "loadLatencyAnalytics.done"}]_vars

\* C27: once the hook is unmounted and listen() has answered, no listener
\* of "redis-monitor" is left registered.
C27_UnlistenedAfterUnmount ==
    (~mounted /\ Waiting("setupEventListeners", "listen") = {}) => listeners = {}

====
